---- MODULE Spec2Model ----
(***************************************************************************)
(* calbridge-sync: one-way mirror of calendar sources into a Google        *)
(* calendar.  The model follows the `start` daemon of src/src/cli.ts: it   *)
(* runs batches of SyncService.runCycle (src/src/sync/service.ts), one     *)
(* cycle per enabled subscription, against the mapping store               *)
(* (DbClient, src/unnamed/part_003) and the destination calendar           *)
(* (GoogleCalendarClient, src/unnamed/part_002).                           *)
(*                                                                         *)
(* Node.js runs one callback at a time and a callback runs until its next  *)
(* await on the network.  So one action is one macrotask: the arrival of a *)
(* network response together with everything the program does until it     *)
(* waits for the next response (or a timer tick, a signal, a poll).        *)
(***************************************************************************)
EXTENDS Integers, Sequences, FiniteSets, TLC

\* ------------------------------------------------------------------ bounds
MaxEvents == 2
MaxGoogleIds == 3
MaxBatches == 2

\* ----------------------------------------------------------- configuration
\* config.subscriptions, in configuration order; one is disabled.
ConfigSubscriptions ==
  << [id |-> "s1", enabled |-> TRUE, sourceMode |-> "ics", googleTargetCalendarId |-> "primary"],
     [id |-> "s2", enabled |-> FALSE, sourceMode |-> "ics", googleTargetCalendarId |-> "team"],
     [id |-> "s3", enabled |-> TRUE, sourceMode |-> "microsoft",
      googleTargetCalendarId |-> "primary"] >>

SubscriptionIds == {ConfigSubscriptions[k].id : k \in 1..Len(ConfigSubscriptions)}

\* runtime.subscriptions: config.subscriptions.filter(enabled), order kept.
RuntimeSubscriptions ==
  LET ids == [k \in 1..Len(ConfigSubscriptions) |-> ConfigSubscriptions[k]]
      on  == SelectSeq(ids, LAMBDA c : c.enabled)
  IN  [k \in 1..Len(on) |-> on[k].id]

\* ------------------------------------------------------------- data model
IdPool == <<"a", "b", "c", "d", "e", "f">>
EventIds == {IdPool[k] : k \in 1..MaxEvents}

\* SourceEvent: the fields reconciliation reads (id, isCancelled).
SourceEvent == [id : EventIds, isCancelled : BOOLEAN]

Range(seq) == {seq[k] : k \in 1..Len(seq)}

PoolIndex(e) == CHOOSE k \in 1..Len(IdPool) : IdPool[k] = e

\* What SourceClient.listEvents can return: a list of occurrences, each id at
\* most once (the ICS pipeline deduplicates by id; the APIs key events by id).
\* The source lists them in its own order (by start time); the ids are named in
\* that order.
InSourceOrder(evs) ==
  \A p, q \in 1..Len(evs) : p < q => PoolIndex(evs[p].id) < PoolIndex(evs[q].id)

SourceBatches ==
  {evs \in UNION {[1..n -> SourceEvent] : n \in 0..MaxEvents} : InSourceOrder(evs)}

\* All orders in which a set of rows can be listed.
Orderings(S) ==
  {seq \in [1..Cardinality(S) -> S] : Range(seq) = S}

\* ------------------------------------------------------------ pure helpers
\* const activeEventsById = new Map(); for (event of sourceEvents)
\*   if (!event.isCancelled) activeEventsById.set(event.id, event)
\* The Map's key order: first insertion of each id.
SkipsCancelledBug(evs) == [k \in 1..Len(evs) |-> evs[k].id]

RECURSIVE activeEventsById(_)
activeEventsById(evs) ==
  IF evs = <<>> THEN <<>>
  ELSE LET rest == activeEventsById(SubSeq(evs, 1, Len(evs) - 1))
           e    == evs[Len(evs)]
       IN  IF e.isCancelled \/ e.id \in Range(rest) THEN rest ELSE Append(rest, e.id)

\* findStaleOutlookIds(mappedOutlookIds, activeOutlookIds)
StaleOfActiveBug(mapped, activeSet) == SelectSeq(mapped, LAMBDA m : m \in activeSet)

AllMappedStaleBug(mapped, activeSet) == mapped

findStaleOutlookIds(mapped, activeSet) ==
  SelectSeq(mapped, LAMBDA m : m \notin activeSet)

\* ------------------------------------------------------------------ state
VARIABLES
  mappings,      \* event_mappings: subscription -> source event id -> google event id (0: no row)
  syncState,     \* sync_state: subscription -> last_run_status / last_successful_sync_ts
  dest,          \* the events of the destination calendar(s)
  nextGoogleId,  \* the id the destination gives to the next created event
  phase,         \* the start command: "boot", "initial", "serving", "draining", "exited", "killed"
  cycleRunning,  \* let cycleRunning
  shuttingDown,  \* let shuttingDown
  nBatches,      \* batches started so far (also the clock of new Date())
  batch,         \* the invocations of runAllCycles: where each one waits, and its locals
  returned,      \* what the runCycle call that ended in this step returned or threw
  summary,       \* what the runOnceForAllSubscriptions call that ended in this step returned
  skipLogged,    \* "Previous cycle still running; skipping this interval" was logged
  prev,          \* per subscription: the source data of its last completed, undisturbed cycle
  oob,           \* per subscription: destination changed out of band since its cycle began
  retry,         \* withRetry around the network call in flight: attempt, fn running or waiting
  settled,       \* what the withRetry call that ended in this step returned or threw
  args,          \* the arguments of the pure function under study
  result         \* its result, once applied

vars == << mappings, syncState, dest, nextGoogleId, phase, cycleRunning, shuttingDown,
           nBatches, batch, returned, summary, skipLogged, prev, oob,
           retry, settled, args, result >>

NoRow == 0

ZeroMetrics == [considered |-> 0, created |-> 0, updated |-> 0, deleted |-> 0]

\* The invocations of runAllCycles that get past its guard are numbered; the run
\* is cut off once MaxBatches of them have finished.
BatchSlots == 1..(MaxBatches + 1)

\* A runAllCycles invocation that is not running.
IdleBatch ==
  [ pc |-> "idle", subIdx |-> 0, successes |-> <<>>, failures |-> <<>>,
    sourceEvents |-> <<>>, active |-> <<>>, mappingSnap |-> <<>>, i |-> 0,
    stale |-> <<>>, j |-> 0, metrics |-> ZeroMetrics, calls |-> <<>> ]

NoReturn ==
  [ sub |-> "", ok |-> FALSE, error |-> 0, at |-> 0, metrics |-> ZeroMetrics,
    sourceEvents |-> <<>>, active |-> <<>>, mappingSnap |-> <<>>, stale |-> <<>>,
    calls |-> <<>>, fetched |-> FALSE, repeat |-> FALSE ]
NoSummary == [subscriptionCount |-> 0, successes |-> <<>>, failures |-> <<>>, ranAt |-> 0]
NoPrev == [ok |-> FALSE, sourceEvents |-> <<>>]

\* withRetry: let attempt = 0; the first pass of the loop makes it 1 and calls fn.
NoCall == [attempt |-> 1, pc |-> "fn", status |-> 0, delayMs |-> 0]
NoSettled == [op |-> "", sub |-> "", attempts |-> 0, status |-> 0, resolved |-> FALSE]
NoArgs == <<>>
NoResult == <<>>

\* No call is being retried and no pure function is under study.
Unstudied ==
  /\ retry = NoCall
  /\ settled = NoSettled
  /\ args = NoArgs
  /\ result = NoResult

\* A process of the start command right after construction, on an empty database.
Boot ==
  /\ mappings = [s \in SubscriptionIds |-> [e \in EventIds |-> NoRow]]
  /\ syncState = [s \in SubscriptionIds |->
                    [last_run_status |-> "none", failedAt |-> 0, last_successful_sync_ts |-> 0]]
  /\ dest = {}
  /\ nextGoogleId = 1
  /\ phase = "boot"
  /\ cycleRunning = FALSE
  /\ shuttingDown = FALSE
  /\ nBatches = 0
  /\ batch = [b \in BatchSlots |-> IdleBatch]
  /\ returned = NoReturn
  /\ summary = NoSummary
  /\ skipLogged = FALSE
  /\ prev = [s \in SubscriptionIds |-> NoPrev]
  /\ oob = [s \in SubscriptionIds |-> FALSE]

Init == Boot /\ Unstudied

\* ------------------------------------------------------------ mapping store
\* DbClient.listMappings: SELECT ... WHERE subscription_id = ? has no ORDER BY,
\* so the rows come in an order the program does not control.
listMappings(s) ==
  Orderings({[sourceEventId |-> e, googleEventId |-> mappings[s][e]] :
               e \in {x \in EventIds : mappings[s][x] # NoRow}})

\* DbClient.upsertMapping via SyncService.saveMapping
SaveForgetsBug(maps, s, e, g) == maps

SavesForEveryOccurrenceBug(maps, s, e, g) == [maps EXCEPT ![s] = [x \in EventIds |-> g]]

saveMapping(maps, s, e, g) == [maps EXCEPT ![s][e] = g]

\* DbClient.deleteMapping
deleteMapping(maps, s, e) == [maps EXCEPT ![s][e] = NoRow]

\* DbClient.setState(subscriptionId, key, value), for the two keys runCycle writes
setStateSuccess(st, s, now) ==
  [st EXCEPT ![s] = [@ EXCEPT !.last_successful_sync_ts = now,
                              !.last_run_status = "success", !.failedAt = 0]]

FailedWritesTsBug(st, s, now) ==
  [st EXCEPT ![s] = [@ EXCEPT !.last_run_status = "failed", !.failedAt = now,
                              !.last_successful_sync_ts = now]]

FailureNotRecordedBug(st, s, now) == st

setStateFailed(st, s, now) ==
  [st EXCEPT ![s] = [@ EXCEPT !.last_run_status = "failed", !.failedAt = now]]

\* mappingBySourceEventId.get(id)
MappedGoogleId(snap, e) ==
  LET hits == {k \in 1..Len(snap) : snap[k].sourceEventId = e}
  IN  IF hits = {} THEN NoRow ELSE snap[CHOOSE k \in hits : TRUE].googleEventId

SnapKeys(snap) == [k \in 1..Len(snap) |-> snap[k].sourceEventId]

\* ------------------------------------------------------------- destination
DestIds == {ev.id : ev \in dest}

APP_MARKER == "outlook-google-sync"

\* The value of a parameter the caller does not pass.
undefined == "undefined"

\* toGoogleEventPayload: the private metadata that says whose mirror the event is.
toGoogleEventPayload(source, subscriptionId, sourceMode) ==
  [app |-> APP_MARKER, source |-> sourceMode, source_mode |-> sourceMode,
   subscription_id |-> subscriptionId, source_event_id |-> source]

\* The payload runCycle builds for an occurrence: it passes the occurrence and
\* the subscription id, and no source mode.
cyclePayload(sourceEvent, subscriptionId) ==
  toGoogleEventPayload(sourceEvent, subscriptionId, undefined)

\* subscription.googleTargetCalendarId: the calendar a subscription mirrors into.
googleTargetCalendarId(s) ==
  LET k == CHOOSE x \in 1..Len(ConfigSubscriptions) : ConfigSubscriptions[x].id = s
  IN  ConfigSubscriptions[k].googleTargetCalendarId

\* The event a calendar of the destination keeps for a payload, with its
\* private properties.
DestEvent(calendarId, g, payload) ==
  [calendarId |-> calendarId, id |-> g, app |-> payload.app, source |-> payload.source,
   subscription_id |-> payload.subscription_id,
   source_event_id |-> payload.source_event_id]

\* Statuses with which a call can fail for good: a permanent error (403), or a
\* retriable one (500) still failing at the last attempt of withRetry.
ErrorStatuses == {403, 500}

ListStatuses == {200} \cup ErrorStatuses
CreateStatuses == (IF nextGoogleId <= MaxGoogleIds THEN {200} ELSE {}) \cup ErrorStatuses
UpdateStatuses(g) == (IF g \in DestIds THEN {200} ELSE {404}) \cup ErrorStatuses
DeleteStatuses(g) == (IF g \in DestIds THEN {204} ELSE {404}) \cup ErrorStatuses

\* runCycle, catch around updateEvent: error instanceof HttpError && error.status === 404
UpdateNotFoundThrowsBug(status) ==
  IF status = 200 THEN "saved" ELSE "throw"

RecreatesOnAnyErrorBug(status) ==
  IF status = 200 THEN "saved" ELSE "recreate"

updateOutcome(status) ==
  IF status = 200 THEN "saved" ELSE IF status = 404 THEN "recreate" ELSE "throw"

\* GoogleCalendarClient.deleteEvent: true, false on 404, throws otherwise
DeleteNotFoundThrowsBug(status) ==
  IF status = 204 THEN "true" ELSE "throw"

deleteEvent(status) ==
  IF status = 204 THEN "true" ELSE IF status = 404 THEN "false" ELSE "throw"

\* ------------------------------------------------------------------ runCycle
\* The locals of a fresh runCycle call for the k-th runtime subscription, waiting
\* for sourceClient.listEvents.
startCycle(br, k) ==
  [br EXCEPT !.pc = "listEvents", !.subIdx = k,
             !.sourceEvents = <<>>, !.active = <<>>, !.mappingSnap = <<>>, !.i = 0,
             !.stale = <<>>, !.j = 0, !.metrics = ZeroMetrics, !.calls = <<>>]

\* Where runCycle waits next, the loop index having been advanced: in the loop
\* over activeEventsById, else (stale ids computed on leaving it) in the loop
\* over staleSourceIds, else it returns.
DeletesFirstBug(loc) ==
  LET st == IF loc.j = 0
            THEN findStaleOutlookIds(SnapKeys(loc.mappingSnap), Range(loc.active))
            ELSE loc.stale
      jj == IF loc.j = 0 THEN 1 ELSE loc.j
  IN  [loc EXCEPT !.stale = st, !.j = jj,
                  !.pc = IF jj <= Len(st) THEN "deleteEvent"
                         ELSE IF loc.i <= Len(loc.active)
                         THEN IF MappedGoogleId(loc.mappingSnap, loc.active[loc.i]) = NoRow
                              THEN "createEvent" ELSE "updateEvent"
                         ELSE "return"]

nextAwait(loc) ==
  IF loc.j = 0 /\ loc.i <= Len(loc.active)
  THEN [loc EXCEPT !.pc = IF MappedGoogleId(loc.mappingSnap, loc.active[loc.i]) = NoRow
                          THEN "createEvent" ELSE "updateEvent"]
  ELSE LET st == IF loc.j = 0
                 THEN findStaleOutlookIds(SnapKeys(loc.mappingSnap), Range(loc.active))
                 ELSE loc.stale
           jj == IF loc.j = 0 THEN 1 ELSE loc.j
       IN  [loc EXCEPT !.stale = st, !.j = jj,
                       !.pc = IF jj <= Len(st) THEN "deleteEvent" ELSE "return"]

Logged(loc, op, e, g, status) ==
  [loc EXCEPT !.calls = Append(@, [op |-> op, id |-> e, googleEventId |-> g, status |-> status])]

\* runOnceForAllSubscriptions after a cycle ended: pushes to successes or
\* failures and goes on with the next subscription whatever the outcome.
StopsAtFailureBug(ok, k) == ~ok \/ k = Len(RuntimeSubscriptions)

isLastSubscription(ok, k) == k = Len(RuntimeSubscriptions)

\* runAllCycles, finally: cycleRunning = false
FlagStaysRaisedBug == TRUE

BusyFlagAfterBatch == FALSE

\* runCycle, catch (error): setState, logger.error, throw.  The mapping rows
\* written before the error are not touched.
RollsBackBug(maps, s, loc) ==
  IF loc.pc = "listEvents" THEN maps
  ELSE [maps EXCEPT ![s] = [e \in EventIds |-> MappedGoogleId(loc.mappingSnap, e)]]

mappingsAfterCatch(maps, s, loc) == maps

\* runCycle returns (ok) or, having caught an error, records the failure and
\* rethrows; then the rest of the batch up to its next await.
EndCycle(b, loc, maps, ok, status) ==
  LET s    == RuntimeSubscriptions[loc.subIdx]
      now  == nBatches
      succ == IF ok THEN Append(loc.successes, s) ELSE loc.successes
      fail == IF ok THEN loc.failures ELSE Append(loc.failures, s)
  IN  /\ mappings' = IF ok THEN maps ELSE mappingsAfterCatch(maps, s, loc)
      /\ syncState' = IF ok THEN setStateSuccess(syncState, s, now)
                            ELSE setStateFailed(syncState, s, now)
      /\ returned' = [ sub |-> s, ok |-> ok, error |-> status, at |-> now,
                       metrics |-> loc.metrics, sourceEvents |-> loc.sourceEvents,
                       active |-> loc.active, mappingSnap |-> loc.mappingSnap,
                       stale |-> loc.stale, calls |-> loc.calls,
                       fetched |-> loc.pc # "listEvents",
                       repeat |-> /\ prev[s].ok
                                  /\ prev[s].sourceEvents = loc.sourceEvents
                                  /\ ~oob[s] ]
      /\ prev' = [prev EXCEPT ![s] = IF ok /\ ~oob[s]
                                     THEN [ok |-> TRUE, sourceEvents |-> loc.sourceEvents]
                                     ELSE NoPrev]
      /\ IF isLastSubscription(ok, loc.subIdx)
         THEN /\ batch' = [batch EXCEPT ![b] = IdleBatch]
              /\ summary' = [subscriptionCount |-> Len(RuntimeSubscriptions),
                             successes |-> succ, failures |-> fail, ranAt |-> now]
              /\ cycleRunning' = BusyFlagAfterBatch
              /\ phase' = IF phase = "initial" THEN "serving" ELSE phase
              /\ oob' = oob
         ELSE /\ batch' = [batch EXCEPT ![b] =
                    startCycle([loc EXCEPT !.successes = succ, !.failures = fail],
                               loc.subIdx + 1)]
              /\ summary' = NoSummary
              /\ oob' = [oob EXCEPT ![RuntimeSubscriptions[loc.subIdx + 1]] = FALSE]
              /\ UNCHANGED <<cycleRunning, phase>>

\* The response was handled without an error: runCycle goes on to its next await.
Continue(b, loc, maps) ==
  IF loc.pc = "return"
  THEN EndCycle(b, loc, maps, TRUE, 0)
  ELSE /\ batch' = [batch EXCEPT ![b] = loc]
       /\ mappings' = maps
       /\ returned' = NoReturn
       /\ summary' = NoSummary
       /\ UNCHANGED <<syncState, prev, oob, cycleRunning, phase>>

Alive == phase \in {"initial", "serving", "draining"}

CurrentSub(b) == RuntimeSubscriptions[batch[b].subIdx]

\* runCycle resumes after `await sourceClient.listEvents`, the call having ended
\* with `status`: activeEventsById, listMappings, mappingBySourceEventId.
listEventsSettled(b, status) ==
  /\ Alive
  /\ batch[b].pc = "listEvents"
  /\ IF status = 200
       THEN \E evs \in SourceBatches, rows \in listMappings(CurrentSub(b)) :
              LET loc == [batch[b] EXCEPT !.sourceEvents = evs,
                                          !.metrics.considered = Len(evs),
                                          !.active = activeEventsById(evs),
                                          !.mappingSnap = rows,
                                          !.i = 1]
              IN  Continue(b, nextAwait(loc), mappings)
       ELSE EndCycle(b, batch[b], mappings, FALSE, status)
  /\ UNCHANGED <<dest, nextGoogleId, shuttingDown, nBatches, skipLogged>>

\* sourceClient.listEvents answers.
listEventsResponds(b) ==
  /\ \E status \in ListStatuses : listEventsSettled(b, status)
  /\ UNCHANGED <<retry, settled, args, result>>

\* runCycle resumes after `await googleClient.createEvent`, for an occurrence
\* without mapping or in the catch of a 404 on update.
createEventSettled(b, status) ==
  /\ Alive
  /\ batch[b].pc \in {"createEvent", "recreateEvent"}
  /\ LET loc0 == batch[b]
         s    == CurrentSub(b)
         e    == loc0.active[loc0.i]
         g    == nextGoogleId
     IN    IF status = 200
           THEN /\ dest' = dest \cup {DestEvent(googleTargetCalendarId(s), g, cyclePayload(e, s))}
                /\ nextGoogleId' = nextGoogleId + 1
                /\ LET loc == [Logged(loc0, "create", e, g, status)
                                 EXCEPT !.metrics.created = @ + 1, !.i = @ + 1]
                   IN  Continue(b, nextAwait(loc), saveMapping(mappings, s, e, g))
           ELSE /\ EndCycle(b, Logged(loc0, "create", e, NoRow, status), mappings, FALSE, status)
                /\ UNCHANGED <<dest, nextGoogleId>>
  /\ UNCHANGED <<shuttingDown, nBatches, skipLogged>>

\* googleClient.createEvent answers.
createEventResponds(b) ==
  /\ \E status \in CreateStatuses : createEventSettled(b, status)
  /\ UNCHANGED <<retry, settled, args, result>>

\* The destination id of the call a cycle waits for at updateEvent or deleteEvent.
AwaitedGoogleId(b) ==
  LET loc == batch[b]
  IN  IF loc.pc = "updateEvent" THEN MappedGoogleId(loc.mappingSnap, loc.active[loc.i])
      ELSE IF loc.pc = "deleteEvent" THEN MappedGoogleId(loc.mappingSnap, loc.stale[loc.j])
      ELSE NoRow

\* runCycle resumes after `await googleClient.updateEvent`, for an occurrence
\* with a mapping.
updateEventSettled(b, status) ==
  /\ Alive
  /\ batch[b].pc = "updateEvent"
  /\ LET loc0 == batch[b]
         s    == CurrentSub(b)
         e    == loc0.active[loc0.i]
         g    == MappedGoogleId(loc0.mappingSnap, e)
     IN    LET logged == Logged(loc0, "update", e, g, status)
           IN  CASE updateOutcome(status) = "saved" ->
                      /\ dest' = {ev \in dest : ev.id # g}
                                   \cup {DestEvent(googleTargetCalendarId(s), g, cyclePayload(e, s))}
                      /\ LET loc == [logged EXCEPT !.metrics.updated = @ + 1, !.i = @ + 1]
                         IN  Continue(b, nextAwait(loc), saveMapping(mappings, s, e, g))
                 [] updateOutcome(status) = "recreate" ->
                      /\ dest' = dest
                      /\ Continue(b, [logged EXCEPT !.pc = "recreateEvent"], mappings)
                 [] OTHER ->
                      /\ dest' = dest
                      /\ EndCycle(b, logged, mappings, FALSE, status)
  /\ UNCHANGED <<nextGoogleId, shuttingDown, nBatches, skipLogged>>

\* googleClient.updateEvent answers.
updateEventResponds(b) ==
  /\ \E status \in UpdateStatuses(AwaitedGoogleId(b)) : updateEventSettled(b, status)
  /\ UNCHANGED <<retry, settled, args, result>>

\* runCycle resumes after `await googleClient.deleteEvent`, for a stale mapping.
deleteEventSettled(b, status) ==
  /\ Alive
  /\ batch[b].pc = "deleteEvent"
  /\ LET loc0 == batch[b]
         s    == CurrentSub(b)
         e    == loc0.stale[loc0.j]
         g    == MappedGoogleId(loc0.mappingSnap, e)
     IN    LET logged == Logged(loc0, "delete", e, g, status)
           IN  IF deleteEvent(status) \in {"true", "false"}
               THEN /\ dest' = {ev \in dest : ev.id # g}
                    /\ LET loc == [logged EXCEPT !.metrics.deleted = @ + 1, !.j = @ + 1]
                       IN  Continue(b, nextAwait(loc), deleteMapping(mappings, s, e))
               ELSE /\ dest' = dest
                    /\ EndCycle(b, logged, mappings, FALSE, status)
  /\ UNCHANGED <<nextGoogleId, shuttingDown, nBatches, skipLogged>>

\* googleClient.deleteEvent answers.
deleteEventResponds(b) ==
  /\ \E status \in DeleteStatuses(AwaitedGoogleId(b)) : deleteEventSettled(b, status)
  /\ UNCHANGED <<retry, settled, args, result>>

\* ------------------------------------------------------------ start command
\* if (cycleRunning) { warn; return }  -- the guard of runAllCycles
NeverBusyBug == FALSE

previousCycleStillRunning == cycleRunning

BatchesDone == nBatches - Cardinality({b \in BatchSlots : batch[b].pc # "idle"})

\* runAllCycles up to its first await: skip when busy, else raise the flag and
\* enter runOnceForAllSubscriptions, whose first runCycle calls listEvents.
runAllCycles ==
  IF previousCycleStillRunning
  THEN /\ skipLogged' = TRUE
       /\ UNCHANGED <<cycleRunning, nBatches, batch, oob>>
  ELSE /\ BatchesDone < MaxBatches
       /\ cycleRunning' = TRUE
       /\ nBatches' = nBatches + 1
       /\ batch' = [batch EXCEPT ![nBatches + 1] = startCycle(IdleBatch, 1)]
       /\ oob' = [oob EXCEPT ![RuntimeSubscriptions[1]] = FALSE]
       /\ UNCHANGED skipLogged

EnvFrame ==
  /\ returned' = NoReturn
  /\ summary' = NoSummary
  /\ UNCHANGED <<mappings, syncState, nextGoogleId>>
  /\ UNCHANGED <<retry, settled, args, result>>

\* `start`: await runAllCycles() before the timer and the signal handlers exist.
StartCommand ==
  /\ phase = "boot"
  /\ phase' = "initial"
  /\ runAllCycles
  /\ EnvFrame
  /\ UNCHANGED <<dest, prev, shuttingDown>>

\* setInterval(() => void runAllCycles(), syncIntervalSeconds * 1000)
TimerFires ==
  /\ phase = "serving"
  /\ runAllCycles
  /\ EnvFrame
  /\ UNCHANGED <<phase, dest, prev, shuttingDown>>

\* waitForCycle: resolve (withRuntime then closes the database and the process
\* ends) once no batch runs, else look again in 250 ms.
waitForCycle == IF ~cycleRunning THEN "exited" ELSE "draining"

\* SIGINT / SIGTERM.  Before the handlers are registered (during the initial
\* batch) the signal's default disposition ends the process at once.
Signal ==
  /\ Alive
  /\ IF phase = "initial"
     THEN phase' = "killed" /\ UNCHANGED shuttingDown
     ELSE IF shuttingDown
          THEN UNCHANGED <<phase, shuttingDown>>
          ELSE shuttingDown' = TRUE /\ phase' = waitForCycle
  /\ EnvFrame
  /\ UNCHANGED <<dest, prev, oob, cycleRunning, nBatches, batch, skipLogged>>

\* setTimeout(waitForCycle, 250)
PollFires ==
  /\ phase = "draining"
  /\ phase' = waitForCycle
  /\ EnvFrame
  /\ UNCHANGED <<dest, prev, oob, cycleRunning, shuttingDown, nBatches, batch, skipLogged>>

\* Somebody deletes a mirrored event in the destination calendar by hand.
OutOfBandDelete ==
  /\ Alive
  /\ \E ev \in dest :
       /\ dest' = dest \ {ev}
       /\ oob' = [oob EXCEPT ![ev.subscription_id] = TRUE]
       /\ prev' = [prev EXCEPT ![ev.subscription_id] = NoPrev]
  /\ EnvFrame
  /\ UNCHANGED <<phase, cycleRunning, shuttingDown, nBatches, batch, skipLogged>>

Next ==
  \/ StartCommand
  \/ TimerFires
  \/ Signal
  \/ PollFires
  \/ OutOfBandDelete
  \/ \E b \in BatchSlots : listEventsResponds(b)
  \/ \E b \in BatchSlots : createEventResponds(b)
  \/ \E b \in BatchSlots : updateEventResponds(b)
  \/ \E b \in BatchSlots : deleteEventResponds(b)

Spec == Init /\ [][Next]_vars

\* Every awaited call settles (fetch has a timeout and withRetry a ceiling), and
\* the 250 ms timer of waitForCycle fires; the interval timer and signals need
\* not occur.
AwaitSettles ==
  \E b \in BatchSlots :
     \/ listEventsResponds(b)
     \/ createEventResponds(b)
     \/ updateEventResponds(b)
     \/ deleteEventResponds(b)

\* The steps of the process itself: the start command, its timers and signal
\* handler, and the continuations of its awaited calls.
ProcessNext ==
  \/ StartCommand
  \/ TimerFires
  \/ Signal
  \/ PollFires
  \/ AwaitSettles

FairSpec == Init /\ [][ProcessNext]_vars /\ WF_vars(AwaitSettles) /\ WF_vars(PollFires)

\* ------------------------------------------------------------- retry layer
\* withRetry(logger, operationName, fn, maxAttempts = 5)
maxAttempts == 5

\* fetch rejected by AbortSignal.timeout(timeoutMs): a DOMException, not an
\* HttpError.  It has no status; this number stands for it.
TimeoutError == 1

isHttpError(status) == status # TimeoutError

isRetriableStatus(status) ==
  status = 429 \/ status = 500 \/ status = 502 \/ status = 503 \/ status = 504

\* withRetry, catch: isHttpError && isRetriableStatus(error.status) && attempt < maxAttempts
RetriesPastCeilingBug(status, attempt) ==
  isHttpError(status) /\ isRetriableStatus(status)

RetriesAnyErrorBug(status, attempt) ==
  isHttpError(status) /\ status \notin {200, 204, 404} /\ attempt < maxAttempts

canRetry(status, attempt) ==
  isHttpError(status) /\ isRetriableStatus(status) /\ attempt < maxAttempts

\* The retry-after header of a failed response: absent (headers.get gives null)
\* or its text.
NoRetryAfter == [present |-> FALSE, text |-> ""]
HttpDate == "Wed, 21 Oct 2015 07:28:00 GMT"
RetryAfterTexts == {"", "0", "2", "120", "-5", HttpDate}
RetryAfterValues ==
  {NoRetryAfter} \cup {[present |-> TRUE, text |-> t] : t \in RetryAfterTexts}

\* Number(retryAfter) on these texts.
NaN == [nan |-> TRUE, value |-> 0]
Number(text) ==
  CASE text = ""    -> [nan |-> FALSE, value |-> 0]
    [] text = "0"   -> [nan |-> FALSE, value |-> 0]
    [] text = "2"   -> [nan |-> FALSE, value |-> 2]
    [] text = "120" -> [nan |-> FALSE, value |-> 120]
    [] text = "-5"  -> [nan |-> FALSE, value |-> 0 - 5]
    [] OTHER        -> NaN

\* Math.floor(Math.random() * 250) is in 0..249; these values stand for it.
Jitters == {0, 125, 249}

Max(x, y) == IF x >= y THEN x ELSE y
Min(x, y) == IF x <= y THEN x ELSE y

\* getRetryDelayMs(error, attempt), with the value Math.random gave.
UncappedDelayBug(retryAfter, attempt, jitter) ==
  IF retryAfter.present /\ retryAfter.text # "" /\ ~Number(retryAfter.text).nan
  THEN Max(Number(retryAfter.text).value * 1000, 1000)
  ELSE 1000 * 2 ^ (attempt - 1) + jitter

getRetryDelayMs(retryAfter, attempt, jitter) ==
  IF retryAfter.present /\ retryAfter.text # "" /\ ~Number(retryAfter.text).nan
  THEN Max(Number(retryAfter.text).value * 1000, 1000)
  ELSE Min(1000 * 2 ^ (attempt - 1), 30000) + jitter

\* What one invocation of fn can end with besides success: an HttpError of
\* requestJson, or the timeout of fetch.
HttpFailureStatuses == {400, 401, 403, 429, 500, 501, 502, 503, 504}
FailureStatuses == HttpFailureStatuses \cup {TimeoutError}

\* The outcomes of one invocation of fn for the call the cycle waits for: the
\* answers the server can give in this state, or a failure.  A 404 on listEvents
\* or createEvent is a failure like any other.
AttemptStatuses(b) ==
  LET pc == batch[b].pc
      answers ==
        CASE pc = "listEvents"  -> (ListStatuses \ ErrorStatuses) \cup {404}
          [] pc \in {"createEvent", "recreateEvent"} ->
                                   (CreateStatuses \ ErrorStatuses) \cup {404}
          [] pc = "updateEvent" -> UpdateStatuses(AwaitedGoogleId(b)) \ ErrorStatuses
          [] pc = "deleteEvent" -> DeleteStatuses(AwaitedGoogleId(b)) \ ErrorStatuses
          [] OTHER              -> {}
  IN  IF answers = {} /\ pc \notin {"createEvent", "recreateEvent"} THEN {}
      ELSE answers \cup FailureStatuses

Resolved(status) == status \in {200, 204}

\* withRetry, catch with canRetry: compute the delay, log, await wait(delayMs).
fnRejected(b) ==
  /\ Alive
  /\ retry.pc = "fn"
  /\ \E status \in AttemptStatuses(b), retryAfter \in RetryAfterValues, jitter \in Jitters :
       /\ ~Resolved(status)
       /\ canRetry(status, retry.attempt)
       /\ retry' = [attempt |-> retry.attempt, pc |-> "wait", status |-> status,
                    delayMs |-> getRetryDelayMs(retryAfter, retry.attempt, jitter)]
  /\ settled' = NoSettled
  /\ returned' = NoReturn
  /\ summary' = NoSummary
  /\ UNCHANGED <<mappings, syncState, dest, nextGoogleId, phase, cycleRunning, shuttingDown,
                 nBatches, batch, skipLogged, prev, oob, args, result>>

\* wait(delayMs) resolves: attempt += 1 and fn is invoked again.
waitResolved ==
  /\ Alive
  /\ retry.pc = "wait"
  /\ retry' = [attempt |-> retry.attempt + 1, pc |-> "fn", status |-> 0, delayMs |-> 0]
  /\ settled' = NoSettled
  /\ returned' = NoReturn
  /\ summary' = NoSummary
  /\ UNCHANGED <<mappings, syncState, dest, nextGoogleId, phase, cycleRunning, shuttingDown,
                 nBatches, batch, skipLogged, prev, oob, args, result>>

\* withRetry ends: fn resolved (return await fn()), or it rejected and
\* !canRetry (throw error).  The caller resumes in the same step.
withRetryEnds(b, status) ==
  /\ retry.pc = "fn"
  /\ status \in AttemptStatuses(b)
  /\ Resolved(status) \/ ~canRetry(status, retry.attempt)
  /\ settled' = [op |-> batch[b].pc, sub |-> CurrentSub(b), attempts |-> retry.attempt,
                 status |-> status, resolved |-> Resolved(status)]
  /\ retry' = NoCall
  /\ UNCHANGED <<args, result>>

listEventsRetried(b) ==
  \E status \in FailureStatuses \cup {200, 204, 404} :
     withRetryEnds(b, status) /\ listEventsSettled(b, status)

createEventRetried(b) ==
  \E status \in FailureStatuses \cup {200, 204, 404} :
     withRetryEnds(b, status) /\ createEventSettled(b, status)

updateEventRetried(b) ==
  \E status \in FailureStatuses \cup {200, 204, 404} :
     withRetryEnds(b, status) /\ updateEventSettled(b, status)

deleteEventRetried(b) ==
  \E status \in FailureStatuses \cup {200, 204, 404} :
     withRetryEnds(b, status) /\ deleteEventSettled(b, status)

\* What an earlier run of the program can have left in the database and in the
\* destination calendar: nothing; one mirrored occurrence of s1; the same with
\* its destination event since deleted by hand.
PersistedStores ==
  LET none == [s \in SubscriptionIds |-> [e \in EventIds |-> NoRow]]
      one  == [none EXCEPT !["s1"]["a"] = 1]
      ev   == DestEvent(googleTargetCalendarId("s1"), 1, cyclePayload("a", "s1"))
      st0  == [s \in SubscriptionIds |->
                 [last_run_status |-> "none", failedAt |-> 0, last_successful_sync_ts |-> 0]]
      st1  == [st0 EXCEPT !["s1"] = [last_run_status |-> "success", failedAt |-> 0,
                                      last_successful_sync_ts |-> 1],
                          !["s3"] = [last_run_status |-> "failed", failedAt |-> 1,
                                      last_successful_sync_ts |-> 0]]
  IN  { [mappings |-> none, dest |-> {}, nextGoogleId |-> 1, syncState |-> st0, nBatches |-> 0],
        [mappings |-> one, dest |-> {ev}, nextGoogleId |-> 2, syncState |-> st1, nBatches |-> 1],
        [mappings |-> one, dest |-> {}, nextGoogleId |-> 2, syncState |-> st1, nBatches |-> 1] }

\* The start command of a new process over a persisted store.
RetryInit ==
  /\ \E store \in PersistedStores :
       /\ mappings = store.mappings
       /\ dest = store.dest
       /\ nextGoogleId = store.nextGoogleId
       /\ syncState = store.syncState
       /\ nBatches = store.nBatches
  /\ phase = "boot"
  /\ cycleRunning = FALSE
  /\ shuttingDown = FALSE
  /\ batch = [b \in BatchSlots |-> IdleBatch]
  /\ returned = NoReturn
  /\ summary = NoSummary
  /\ skipLogged = FALSE
  /\ prev = [s \in SubscriptionIds |-> NoPrev]
  /\ oob = [s \in SubscriptionIds |-> FALSE]
  /\ Unstudied

\* The initial batch of the start command with every attempt of every call shown.
RetryNext ==
  \/ StartCommand
  \/ \E b \in BatchSlots : fnRejected(b)
  \/ waitResolved
  \/ \E b \in BatchSlots : listEventsRetried(b)
  \/ \E b \in BatchSlots : createEventRetried(b)
  \/ \E b \in BatchSlots : updateEventRetried(b)
  \/ \E b \in BatchSlots : deleteEventRetried(b)

RetrySpec == RetryInit /\ [][RetryNext]_vars

\* getRetryDelayMs as a function of its inputs: the header of the failed
\* response, the number of the failed attempt, the jitter drawn.
MaxRetryAttempt == 7

DelayArgs ==
  [retryAfter : RetryAfterValues, attempt : 1..MaxRetryAttempt, jitter : Jitters]

DelayInit ==
  /\ Boot
  /\ retry = NoCall
  /\ settled = NoSettled
  /\ args \in DelayArgs
  /\ result = NoResult

getRetryDelayMsReturns ==
  /\ result = NoResult
  /\ result' = <<getRetryDelayMs(args.retryAfter, args.attempt, args.jitter)>>
  /\ UNCHANGED <<mappings, syncState, dest, nextGoogleId, phase, cycleRunning, shuttingDown,
                 nBatches, batch, returned, summary, skipLogged, prev, oob,
                 retry, settled, args>>

DelayNext == getRetryDelayMsReturns

DelaySpec == DelayInit /\ [][DelayNext]_vars

\* ============================================================ the ICS feed
\* Instants are milliseconds, as in the code, counted from 2025-10-31T00:00:00Z
\* (a Friday): the days around the end of daylight-saving time in North America.
HourMs == 60 * 60 * 1000

DayMs == 24 * 60 * 60 * 1000

HalfHourMs == 30 * 60 * 1000

\* The zone database of the runtime (Intl), for the days the model spans:
\* America/Toronto leaves daylight-saving time on 2025-11-02 at 06:00Z
\* (UTC-4 before, UTC-5 after); Europe/London left it a week before.
TimeZones == {"UTC", "Europe/London", "America/Toronto"}

TorontoFallBackMs == 2 * DayMs + 6 * HourMs

\* Two zones that put their clocks forward, as every zone with daylight-saving
\* time does once a year: by an hour (UTC+10 to UTC+11, the rule of
\* Australia/Sydney) and by half an hour (UTC+10:30 to UTC+11, the rule of
\* Australia/Lord_Howe), at 02:00 local time.  No zone of the database does so
\* in the days the model spans, so the two are given a change on 2025-11-02
\* local time and named after their rule.
ForwardHourMs == DayMs + 16 * HourMs

ForwardHalfHourMs == DayMs + 15 * HourMs + HalfHourMs

StepZones == {"America/Toronto", "Forward/Hour", "Forward/HalfHour"}

TransitionMs(timeZone) ==
  IF timeZone = "America/Toronto" THEN TorontoFallBackMs
  ELSE IF timeZone = "Forward/Hour" THEN ForwardHourMs
  ELSE ForwardHalfHourMs

OffsetBefore(timeZone) ==
  IF timeZone = "America/Toronto" THEN -4 * HourMs
  ELSE IF timeZone = "Forward/Hour" THEN 10 * HourMs
  ELSE IF timeZone = "Forward/HalfHour" THEN 10 * HourMs + HalfHourMs
  ELSE 0

OffsetAfter(timeZone) ==
  IF timeZone = "America/Toronto" THEN -5 * HourMs
  ELSE IF timeZone \in {"Forward/Hour", "Forward/HalfHour"} THEN 11 * HourMs
  ELSE 0

getTimeZoneOffsetMs(timeZone, epochMs) ==
  IF timeZone \in StepZones /\ epochMs >= TransitionMs(timeZone)
  THEN OffsetAfter(timeZone)
  ELSE OffsetBefore(timeZone)

\* The wall clock of an instant in a zone, written as the instant that shows
\* the same fields in UTC.
getWallClockPartsInTimeZone(epochMs, timeZone) ==
  epochMs + getTimeZoneOffsetMs(timeZone, epochMs)

RECURSIVE OffsetRounds(_, _, _, _)
OffsetRounds(localAsUtc, timeZone, guess, rounds) ==
  IF rounds = 0 THEN guess
  ELSE OffsetRounds(localAsUtc, timeZone,
                    localAsUtc - getTimeZoneOffsetMs(timeZone, guess), rounds - 1)

OneRoundBug(localAsUtc, timeZone) ==
  OffsetRounds(localAsUtc, timeZone, localAsUtc, 1)

toEpochMsForTimeZone(localAsUtc, timeZone) ==
  OffsetRounds(localAsUtc, timeZone, localAsUtc, 4)

\* new Date(year, month, day, hour, minute, second): the fields read in the zone
\* of the process.  A wall-clock time that occurs twice, or not at all, is read
\* with the offset in force before the transition.
LocalToEpochMs(localAsUtc, processZone) ==
  LET early == localAsUtc - OffsetBefore(processZone)
      late  == localAsUtc - OffsetAfter(processZone)
  IN  IF getTimeZoneOffsetMs(processZone, early) = OffsetBefore(processZone) THEN early
      ELSE IF getTimeZoneOffsetMs(processZone, late) = OffsetAfter(processZone) THEN late
      ELSE early

\* The value of a date or date-time property: VALUE=DATE (a day), a UTC time
\* (suffix Z), a local time with a TZID the runtime knows, or a local time
\* without one.  `wall` holds the written fields as the instant showing them in UTC.
NoProp == [kind |-> "none", wall |-> 0, tzid |-> ""]

DateProp(day) == [kind |-> "date", wall |-> day * DayMs, tzid |-> ""]

UtcProp(ms) == [kind |-> "utc", wall |-> ms, tzid |-> ""]

ZoneProp(wall, tzid) == [kind |-> "tzid", wall |-> wall, tzid |-> tzid]

FloatingProp(wall) == [kind |-> "floating", wall |-> wall, tzid |-> ""]

parseDateOnly(prop) == prop.wall

parseDateTime(prop, processZone) ==
  IF prop.kind = "utc" THEN prop.wall
  ELSE IF prop.kind = "tzid" THEN toEpochMsForTimeZone(prop.wall, prop.tzid)
  ELSE LocalToEpochMs(prop.wall, processZone)

\* toISOString().slice(0, 10): the UTC calendar day of an instant, as the
\* number of the day.
toUtcDateString(epochMs) == epochMs \div DayMs

\* The identity token: the date string of an all-day value, the ISO instant of
\* a timed one.  The two never compare equal.
toTemporalIdentityToken(isAllDay, startMs, date) ==
  IF isAllDay THEN <<"date", date>> ELSE <<"instant", startMs>>

NoToken == <<>>

parseTemporal(prop, processZone) ==
  IF prop.kind = "date"
  THEN [isAllDay |-> TRUE, startMs |-> parseDateOnly(prop),
        identityToken |-> toTemporalIdentityToken(TRUE, parseDateOnly(prop),
                                                  toUtcDateString(parseDateOnly(prop))),
        recurrenceTimeZone |-> ""]
  ELSE LET epochMs == parseDateTime(prop, processZone)
       IN  [isAllDay |-> FALSE, startMs |-> epochMs,
            identityToken |-> toTemporalIdentityToken(FALSE, epochMs, toUtcDateString(epochMs)),
            recurrenceTimeZone |-> IF prop.kind = "tzid" THEN prop.tzid ELSE ""]

\* The start and end fields of an emitted event.
buildEventTimes(isAllDay, startMs, endMs) ==
  IF isAllDay
  THEN [start |-> <<"date", toUtcDateString(startMs)>>,
        end   |-> <<"date", toUtcDateString(endMs)>>]
  ELSE [start |-> <<"dateTime", startMs>>,
        end   |-> <<"dateTime", endMs>>]

\* A VEVENT block, by the properties buildIntermediateEvent reads.  RRULE is
\* "" (absent), "FREQ=DAILY;COUNT=n" written as the number n, or text the rule
\* parser rejects.
NoRule == 0

BadRule == -1

NoIntermediate == [none |-> TRUE]

EndDefaultsSwappedBug(startTemporal) ==
  IF startTemporal.isAllDay
  THEN startTemporal.startMs + HalfHourMs
  ELSE startTemporal.startMs + DayMs

defaultEndMs(startTemporal) ==
  IF startTemporal.isAllDay
  THEN startTemporal.startMs + DayMs
  ELSE startTemporal.startMs + HalfHourMs

buildIntermediateEvent(props, processZone) ==
  LET startTemporal == parseTemporal(props.DTSTART, processZone)
      endMs == IF props.DTEND.kind # "none"
               THEN parseTemporal(props.DTEND, processZone).startMs
               ELSE defaultEndMs(startTemporal)
      recurrenceId == IF props.RECURRENCE_ID.kind # "none"
                      THEN parseTemporal(props.RECURRENCE_ID, processZone).identityToken
                      ELSE NoToken
      id == IF recurrenceId # NoToken THEN <<props.UID, recurrenceId>> ELSE <<props.UID>>
      hasRrule == props.RRULE # NoRule
      eventTimes == buildEventTimes(startTemporal.isAllDay, startTemporal.startMs, endMs)
  IN  IF endMs <= startTemporal.startMs THEN NoIntermediate
      ELSE [event |-> [id |-> id,
                       iCalUid |-> props.UID,
                       title |-> props.SUMMARY,
                       start |-> eventTimes.start,
                       end |-> eventTimes.end,
                       isAllDay |-> startTemporal.isAllDay,
                       isCancelled |-> (props.STATUS = "CANCELLED"),
                       lastModifiedDateTime |->
                         IF props.LAST_MODIFIED.kind \notin {"none", "date"}
                         THEN parseTemporal(props.LAST_MODIFIED, processZone).startMs
                         ELSE startTemporal.startMs,
                       isRecurringMaster |-> (hasRrule /\ recurrenceId = NoToken),
                       seriesMasterId |-> IF recurrenceId # NoToken THEN props.UID ELSE ""],
            startMs |-> startTemporal.startMs,
            endMs |-> endMs,
            durationMs |-> endMs - startTemporal.startMs,
            hasRrule |-> hasRrule,
            rrule |-> props.RRULE,
            recurrenceId |-> recurrenceId,
            recurrenceTimeZone |-> startTemporal.recurrenceTimeZone,
            exdateTokens |-> { parseTemporal(p, processZone).identityToken : p \in props.EXDATE },
            uid |-> props.UID]

IsBuilt(entry) == "event" \in DOMAIN entry

StrictWindowBug(eventStartMs, eventEndMs, windowStartMs, windowEndMs) ==
  eventEndMs >= windowStartMs /\ eventStartMs <= windowEndMs

overlapsWindow(eventStartMs, eventEndMs, windowStartMs, windowEndMs) ==
  eventEndMs > windowStartMs /\ eventStartMs < windowEndMs

buildExpandedOccurrence(master, startMs, endMs) ==
  LET token == toTemporalIdentityToken(master.event.isAllDay, startMs, toUtcDateString(startMs))
      eventTimes == buildEventTimes(master.event.isAllDay, startMs, endMs)
  IN  [master EXCEPT !.event = [master.event EXCEPT !.id = <<master.uid, token>>,
                                                    !.start = eventTimes.start,
                                                    !.end = eventTimes.end,
                                                    !.isRecurringMaster = FALSE,
                                                    !.seriesMasterId = master.uid],
                     !.startMs = startMs,
                     !.endMs = endMs,
                     !.durationMs = endMs - startMs,
                     !.hasRrule = FALSE,
                     !.rrule = NoRule,
                     !.recurrenceId = token,
                     !.exdateTokens = {}]

\* The integers of a finite set, ascending.
RECURSIVE Ascending(_)
Ascending(S) ==
  IF S = {} THEN <<>>
  ELSE LET least == CHOOSE x \in S : \A y \in S : x <= y
       IN  <<least>> \o Ascending(S \ {least})

\* The rrule library.  A rule with a zone computes its dates on the wall clock
\* (as UTC fields) and hands each out moved by the difference between the
\* offsets of the rule's zone and of the process's zone at that date; a rule
\* without a zone, or in UTC, hands out the dates it computes.
rezonedDate(date, tzid, processZone) ==
  IF tzid = "" \/ tzid = "UTC" THEN date
  ELSE date - (getTimeZoneOffsetMs(tzid, date) - getTimeZoneOffsetMs(processZone, date))

\* rule.between(after, before, true) of a FREQ=DAILY;COUNT=count rule.
between(dtstart, count, tzid, after, before, processZone) ==
  Ascending({ r \in { rezonedDate(dtstart + k * DayMs, tzid, processZone) : k \in 0..(count - 1) } :
                r >= after /\ r <= before })

toFloatingUtcDate(epochMs, recurrenceTzid) ==
  getWallClockPartsInTimeZone(epochMs, recurrenceTzid)

normalizeRRuleOccurrenceMs(occurrence, hasTimeZoneRule, processZone) ==
  IF ~hasTimeZoneRule THEN occurrence ELSE LocalToEpochMs(occurrence, processZone)

KeepsExcludedBug(master, token) == FALSE

isExcluded(master, token) == token \in master.exdateTokens

UnparsedAlwaysEmittedBug(master, windowStartMs, windowEndMs, processZone) ==
  IF master.rrule = NoRule THEN <<>> ELSE <<master>>

expandRecurringMaster(master, windowStartMs, windowEndMs, processZone) ==
  IF master.rrule = NoRule THEN <<>>
  ELSE IF master.rrule = BadRule
  THEN IF overlapsWindow(master.startMs, master.endMs, windowStartMs, windowEndMs)
       THEN <<master>> ELSE <<>>
  ELSE
    LET recurrenceTzid == master.recurrenceTimeZone
        hasTimeZoneRule == recurrenceTzid # "" /\ ~master.event.isAllDay
        dtstartForRule == IF hasTimeZoneRule
                          THEN toFloatingUtcDate(master.startMs, recurrenceTzid)
                          ELSE master.startMs
        starts == between(dtstartForRule, master.rrule, recurrenceTzid,
                          windowStartMs - master.durationMs, windowEndMs, processZone)
        occurrence(i) ==
          LET startMs == normalizeRRuleOccurrenceMs(starts[i], hasTimeZoneRule, processZone)
          IN  buildExpandedOccurrence(master, startMs, startMs + master.durationMs)
        kept(entry) ==
          /\ ~isExcluded(master, entry.recurrenceId)
          /\ overlapsWindow(entry.startMs, entry.endMs, windowStartMs, windowEndMs)
    IN  SelectSeq([i \in 1..Len(starts) |-> occurrence(i)], kept)

getLastModifiedEpoch(entry) == entry.event.lastModifiedDateTime

\* The entries of a list in the order a Map iterates them, keys[i] being the
\* key of entries[i]: a key keeps the place of its first insertion and the
\* value of its last.
RECURSIVE MapOrder(_, _, _)
MapOrder(entries, keys, seen) ==
  IF entries = <<>> THEN <<>>
  ELSE LET k == Head(keys)
           last == CHOOSE i \in 1..Len(entries) :
                     /\ keys[i] = k
                     /\ \A j \in (i + 1)..Len(entries) : keys[j] # k
       IN  IF k \in seen THEN MapOrder(Tail(entries), Tail(keys), seen)
           ELSE <<entries[last]>> \o MapOrder(Tail(entries), Tail(keys), seen \cup {k})

RECURSIVE Flatten(_)
Flatten(lists) == IF lists = <<>> THEN <<>> ELSE Head(lists) \o Flatten(Tail(lists))

intermediateEventsOf(feed, processZone) ==
  SelectSeq([i \in 1..Len(feed) |-> buildIntermediateEvent(feed[i], processZone)], IsBuilt)

IsMaster(entry) == entry.hasRrule /\ entry.recurrenceId = NoToken

IsOverride(entry) == ~IsMaster(entry) /\ entry.recurrenceId # NoToken

IsStandalone(entry) == ~IsMaster(entry) /\ ~IsOverride(entry)

AnchorOf(entry) == <<entry.uid, entry.recurrenceId>>

recurringMastersByUid(intermediateEvents) ==
  LET masters == SelectSeq(intermediateEvents, IsMaster)
  IN  MapOrder(masters, [i \in 1..Len(masters) |-> masters[i].uid], {})

\* overridesByUid: the overrides of one series after the other, each series in
\* the order of its anchors.
overridesByUid(intermediateEvents) ==
  LET overrides == SelectSeq(intermediateEvents, IsOverride)
      series == MapOrder(overrides, [i \in 1..Len(overrides) |-> overrides[i].uid], {})
      ofSeries(i) ==
        LET own == SelectSeq(overrides, LAMBDA o : o.uid = series[i].uid)
        IN  MapOrder(own, [j \in 1..Len(own) |-> AnchorOf(own[j])], {})
  IN  Flatten([i \in 1..Len(series) |-> ofSeries(i)])

\* One step of the loop over the expanded occurrences of a master: what is
\* pushed for the occurrence.
EmitsMovedOverrideBug(occurrence, overrides, windowStartMs, windowEndMs) ==
  LET matching == SelectSeq(overrides, LAMBDA o : occurrence.recurrenceId # NoToken
                                                   /\ AnchorOf(o) = AnchorOf(occurrence))
  IN  IF matching = <<>> THEN <<occurrence>> ELSE <<matching[1]>>

KeepsGeneratedBug(occurrence, overrides, windowStartMs, windowEndMs) == <<occurrence>>

replaceWithOverride(occurrence, overrides, windowStartMs, windowEndMs) ==
  LET matching == SelectSeq(overrides, LAMBDA o : occurrence.recurrenceId # NoToken
                                                   /\ AnchorOf(o) = AnchorOf(occurrence))
  IN  IF matching = <<>> THEN <<occurrence>>
      ELSE IF overlapsWindow(matching[1].startMs, matching[1].endMs, windowStartMs, windowEndMs)
      THEN <<matching[1]>>
      ELSE <<>>

\* The selection of lines 729-761: freestanding events in the window, then the
\* occurrences of every master with overrides put in their place, then the
\* overrides no occurrence has taken.
selectedEventsOf(intermediateEvents, windowStartMs, windowEndMs, processZone) ==
  LET inWindow(entry) == overlapsWindow(entry.startMs, entry.endMs, windowStartMs, windowEndMs)
      standaloneEvents == SelectSeq(intermediateEvents, IsStandalone)
      masters == recurringMastersByUid(intermediateEvents)
      overrides == overridesByUid(intermediateEvents)
      expanded(i) == expandRecurringMaster(masters[i], windowStartMs, windowEndMs, processZone)
      ofMaster(i) == Flatten([j \in 1..Len(expanded(i)) |->
                                replaceWithOverride(expanded(i)[j], overrides,
                                                    windowStartMs, windowEndMs)])
      taken == UNION { { AnchorOf(expanded(i)[j]) : j \in 1..Len(expanded(i)) } :
                         i \in 1..Len(masters) }
      left(o) == AnchorOf(o) \notin taken /\ inWindow(o)
  IN  SelectSeq(standaloneEvents, inWindow)
        \o Flatten([i \in 1..Len(masters) |-> ofMaster(i)])
        \o SelectSeq(overrides, left)

StrictlyLaterBug(existing, entry) ==
  getLastModifiedEpoch(entry) > getLastModifiedEpoch(existing)

KeepsFirstBug(existing, entry) == FALSE

replacesExisting(existing, entry) ==
  getLastModifiedEpoch(entry) >= getLastModifiedEpoch(existing)

RECURSIVE KeyedByIdAndStartBug(_, _)
KeyedByIdAndStartBug(selectedEvents, kept) ==
  IF selectedEvents = <<>> THEN kept
  ELSE LET entry == Head(selectedEvents)
           same == { e \in kept : e.event.id = entry.event.id /\ e.startMs = entry.startMs }
       IN  KeyedByIdAndStartBug(Tail(selectedEvents), (kept \ same) \cup {entry})

\* dedupedById: of the selected entries with one id, the one the loop of
\* lines 763-769 leaves in the map.
RECURSIVE dedupedById(_, _)
dedupedById(selectedEvents, kept) ==
  IF selectedEvents = <<>> THEN kept
  ELSE LET entry == Head(selectedEvents)
           same == { e \in kept : e.event.id = entry.event.id }
       IN  IF same = {} THEN dedupedById(Tail(selectedEvents), kept \cup {entry})
           ELSE IF \A e \in same : replacesExisting(e, entry)
           THEN dedupedById(Tail(selectedEvents), (kept \ same) \cup {entry})
           ELSE dedupedById(Tail(selectedEvents), kept)

\* localeCompare of two ids, through the rank of each part: the UID, then the
\* token (none before any; by day, a date before the instants of its day).
UidRank(uid) == IF uid = "u1" THEN 1 ELSE IF uid = "u2" THEN 2 ELSE 3

IdKey(id) ==
  IF Len(id) = 1 THEN <<UidRank(id[1]), 0, 0, 0>>
  ELSE IF id[2][1] = "date" THEN <<UidRank(id[1]), 1, id[2][2] * DayMs, 0>>
  ELSE <<UidRank(id[1]), 1, toUtcDateString(id[2][2]) * DayMs, 1 + id[2][2] - toUtcDateString(id[2][2]) * DayMs>>

RECURSIVE LexLess(_, _)
LexLess(a, b) ==
  IF a = <<>> \/ b = <<>> THEN FALSE
  ELSE Head(a) < Head(b) \/ (Head(a) = Head(b) /\ LexLess(Tail(a), Tail(b)))

StartDescendingBug(a, b) ==
  IF a.startMs # b.startMs THEN b.startMs < a.startMs
  ELSE LexLess(IdKey(a.event.id), IdKey(b.event.id))

comesBefore(a, b) ==
  IF a.startMs # b.startMs THEN a.startMs < b.startMs
  ELSE LexLess(IdKey(a.event.id), IdKey(b.event.id))

RECURSIVE ordered(_)
ordered(entries) ==
  IF entries = {} THEN <<>>
  ELSE LET first == CHOOSE a \in entries : \A b \in entries \ {a} : comesBefore(a, b)
       IN  <<first>> \o ordered(entries \ {first})

parseIcsToSourceEvents(feed, windowStartMs, windowEndMs, processZone) ==
  LET intermediateEvents == intermediateEventsOf(feed, processZone)
      selectedEvents == selectedEventsOf(intermediateEvents, windowStartMs, windowEndMs, processZone)
      deduped == ordered(dedupedById(selectedEvents, {}))
  IN  [fetchedCount |-> Len(intermediateEvents),
       events |-> [i \in 1..Len(deduped) |-> deduped[i].event]]

\* The feeds the parser is studied on: at most MaxBlocks blocks out of a set
\* that has, around the window, every kind of block the selection tells apart.
MaxBlocks == 3

Block(uid, dtstart, dtend, rrule, exdate, recurrenceId, eventStatus, title, lastModified) ==
  [UID |-> uid, DTSTART |-> dtstart, DTEND |-> dtend, RRULE |-> rrule, EXDATE |-> exdate,
   RECURRENCE_ID |-> recurrenceId, STATUS |-> eventStatus, SUMMARY |-> title,
   LAST_MODIFIED |-> lastModified]

FreestandingBlocks ==
  { Block("u1", UtcProp(DayMs - HalfHourMs), NoProp, NoRule, {}, NoProp, "", "A", NoProp),
    Block("u1", UtcProp(DayMs - HalfHourMs), UtcProp(DayMs + HalfHourMs), NoRule, {}, NoProp,
          "", "B", NoProp),
    Block("u1", UtcProp(DayMs - HalfHourMs), UtcProp(DayMs + HourMs), NoRule, {}, NoProp,
          "", "C", NoProp),
    Block("u2", UtcProp(3 * DayMs), NoProp, NoRule, {}, NoProp, "", "A", NoProp),
    Block("u2", UtcProp(2 * DayMs), UtcProp(2 * DayMs), NoRule, {}, NoProp, "", "A", NoProp),
    Block("u1", DateProp(1), NoProp, NoRule, {}, NoProp, "", "A", UtcProp(DayMs)),
    Block("u2", DateProp(2), UtcProp(2 * DayMs + 12 * HourMs), NoRule, {}, NoProp, "", "B", NoProp),
    Block("u2", UtcProp(3 * DayMs - HalfHourMs), UtcProp(3 * DayMs + HalfHourMs), NoRule, {},
          NoProp, "CANCELLED", "A", NoProp) }

MasterBlocks ==
  { Block("u1", UtcProp(10 * HourMs), NoProp, 3, {}, NoProp, "", "A", NoProp),
    Block("u1", UtcProp(10 * HourMs), NoProp, 3, {UtcProp(DayMs + 10 * HourMs)}, NoProp,
          "", "A", NoProp),
    Block("u1", UtcProp(DayMs + 10 * HourMs), NoProp, BadRule, {}, NoProp, "", "B", NoProp),
    Block("u2", DateProp(0), NoProp, 2, {}, NoProp, "", "A", NoProp) }

OverrideBlocks ==
  { Block("u1", UtcProp(DayMs + 12 * HourMs), NoProp, NoRule, {}, UtcProp(DayMs + 10 * HourMs),
          "", "B", NoProp),
    Block("u1", UtcProp(4 * DayMs), NoProp, NoRule, {}, UtcProp(DayMs + 10 * HourMs),
          "", "C", NoProp),
    Block("u1", UtcProp(2 * DayMs + 11 * HourMs), NoProp, NoRule, {}, UtcProp(5 * DayMs + 10 * HourMs),
          "", "B", NoProp),
    Block("u1", UtcProp(2 * DayMs + 12 * HourMs), NoProp, NoRule, {}, UtcProp(10 * HourMs),
          "", "C", NoProp) }

Blocks == FreestandingBlocks \cup MasterBlocks \cup OverrideBlocks

Feeds == UNION { [1..n -> Blocks] : n \in 0..MaxBlocks }

Windows == { <<DayMs, 3 * DayMs>>, <<2 * DayMs, 3 * DayMs>> }

IcsArgs ==
  { [feed |-> f, windowStartMs |-> w[1], windowEndMs |-> w[2], processZone |-> "UTC"] :
      f \in Feeds, w \in Windows }

IcsInit ==
  /\ Boot
  /\ retry = NoCall
  /\ settled = NoSettled
  /\ args \in IcsArgs
  /\ result = NoResult

parseIcsToSourceEventsReturns ==
  /\ result = NoResult
  /\ result' = <<parseIcsToSourceEvents(args.feed, args.windowStartMs, args.windowEndMs,
                                         args.processZone)>>
  /\ UNCHANGED <<mappings, syncState, dest, nextGoogleId, phase, cycleRunning, shuttingDown,
                 nBatches, batch, returned, summary, skipLogged, prev, oob,
                 retry, settled, args>>

IcsNext == parseIcsToSourceEventsReturns

IcsSpec == IcsInit /\ [][IcsNext]_vars

\* The expansion of a zone-qualified timed master over the days around the end
\* of daylight-saving time, in processes of every zone: one master block
\* DTSTART;TZID=zone at some hour of day 0, FREQ=DAILY;COUNT=n, and a window
\* that holds all its occurrences.
MaxOccurrences == 4

HoursOfDay == 0..23

MasterZones == {"Europe/London", "America/Toronto"}

ZoneArgs ==
  { [feed |-> << Block("u1", ZoneProp(hour * HourMs, zone), NoProp, count, {}, NoProp,
                       "", "A", NoProp) >>,
     windowStartMs |-> -DayMs,
     windowEndMs |-> (MaxOccurrences + 2) * DayMs,
     processZone |-> processZone] :
      hour \in HoursOfDay, zone \in MasterZones, count \in 1..MaxOccurrences,
      processZone \in TimeZones }

ZoneInit ==
  /\ Boot
  /\ retry = NoCall
  /\ settled = NoSettled
  /\ args \in ZoneArgs
  /\ result = NoResult

ZoneSpec == ZoneInit /\ [][IcsNext]_vars

\* ------------------------------------------------ one series and its window
\* Feeds of one recurring master (in UTC or with a TZID, half an hour or four
\* hours long, with or without an EXDATE on its second day), parsed for a
\* window of the second day in a process of each zone.  Every instant lies
\* before the end of daylight-saving time.
MaxSeriesCount == 2

SeriesArgs ==
  LET dtstart(kind, wall) == IF kind = "UTC" THEN UtcProp(wall) ELSE ZoneProp(wall, kind)
      master(kind, hour, hours, count, excluded) ==
        Block("u1", dtstart(kind, hour * HourMs),
              IF hours = 0 THEN NoProp ELSE dtstart(kind, (hour + hours) * HourMs),
              count,
              IF excluded THEN {dtstart(kind, DayMs + hour * HourMs)} ELSE {},
              NoProp, "", "A", NoProp)
  IN  { [feed |-> << master(kind, hour, hours, count, excluded) >>,
         windowStartMs |-> w[1],
         windowEndMs |-> w[2],
         processZone |-> processZone] :
          kind \in TimeZones, hour \in 0..23, hours \in {0, 4}, count \in 1..MaxSeriesCount,
          excluded \in BOOLEAN, w \in { <<DayMs, 2 * DayMs>>, <<DayMs, DayMs + 12 * HourMs>> },
          processZone \in TimeZones }

SeriesInit ==
  /\ Boot
  /\ retry = NoCall
  /\ settled = NoSettled
  /\ args \in SeriesArgs
  /\ result = NoResult

SeriesSpec == SeriesInit /\ [][IcsNext]_vars

\* ------------------------------------------------- local time to instant
\* toEpochMsForTimeZone on its own: the wall-clock values, a quarter of an hour
\* apart, around the wall-clock time at which each zone changes its offset
\* (around midnight of 2025-10-31 for the zones that do not).
MaxQuarterHours == 12

QuarterHourMs == 15 * 60 * 1000

WallClockArgs ==
  { [localAsUtc |-> (IF timeZone \in StepZones
                     THEN TransitionMs(timeZone) + OffsetBefore(timeZone) ELSE 0)
                    + q * QuarterHourMs,
     timeZone |-> timeZone] :
      timeZone \in TimeZones \cup StepZones, q \in (-MaxQuarterHours)..MaxQuarterHours }

WallClockInit ==
  /\ Boot
  /\ retry = NoCall
  /\ settled = NoSettled
  /\ args \in WallClockArgs
  /\ result = NoResult

toEpochMsForTimeZoneReturns ==
  /\ result = NoResult
  /\ result' = <<toEpochMsForTimeZone(args.localAsUtc, args.timeZone)>>
  /\ UNCHANGED <<mappings, syncState, dest, nextGoogleId, phase, cycleRunning, shuttingDown,
                 nBatches, batch, returned, summary, skipLogged, prev, oob,
                 retry, settled, args>>

WallClockSpec == WallClockInit /\ [][toEpochMsForTimeZoneReturns]_vars

\* ------------------------------------------------------------ text values
\* The value of a SUMMARY, DESCRIPTION or LOCATION property as the feed writes
\* it: a string, here a sequence of characters over backslash, comma,
\* semicolon and the letter n.  "LF" stands for the newline character, which
\* a value never holds and unescaping can produce.
MaxValueLen == 4

ValueChars == {"\\", ",", ";", "n"}

\* input.replace(/\\x/g, by), x being one of `escaped`: every match of a
\* backslash followed by such a character, found from left to right without
\* overlap, is replaced.
RECURSIVE replace(_, _, _)
replace(input, escaped, by) ==
  IF Len(input) < 2 THEN input
  ELSE IF input[1] = "\\" /\ input[2] \in escaped
  THEN <<by>> \o replace(SubSeq(input, 3, Len(input)), escaped, by)
  ELSE <<input[1]>> \o replace(Tail(input), escaped, by)

unescapeIcsText(input) ==
  replace(replace(replace(replace(input, {"n", "N"}, "LF"), {","}, ","), {";"}, ";"),
          {"\\"}, "\\")

TextInit ==
  /\ Boot
  /\ retry = NoCall
  /\ settled = NoSettled
  /\ args \in UNION {[1..n -> ValueChars] : n \in 0..MaxValueLen}
  /\ result = NoResult

unescapeIcsTextReturns ==
  /\ result = NoResult
  /\ result' = <<unescapeIcsText(args)>>
  /\ UNCHANGED <<mappings, syncState, dest, nextGoogleId, phase, cycleRunning, shuttingDown,
                 nBatches, batch, returned, summary, skipLogged, prev, oob,
                 retry, settled, args>>

TextSpec == TextInit /\ [][unescapeIcsTextReturns]_vars

\* ===================================================== the cleanup command
\* cleanup:managed.  `args` holds the options of the invocation (the id lists
\* already split by parseCsvList, and whether a Google token is stored),
\* `result` the locals of the action once it has run.
CleanupOptions ==
  [googleToken : BOOLEAN,
   subscription : {<<>>, <<"s1">>, <<"s3">>, <<"s2">>, <<"s1", "s3">>, <<"s1", "s9">>},
   calendar : {<<>>, <<"primary">>, <<"team">>},
   dryRun : BOOLEAN,
   yes : BOOLEAN]

\* An event of the destination the program did not write: it carries no
\* private properties.
UserEvent(calendarId, g) ==
  [calendarId |-> calendarId, id |-> g, app |-> "", source |-> "",
   subscription_id |-> "", source_event_id |-> ""]

\* What earlier runs can have left when the command is invoked: mirrors of
\* all three subscriptions (s2 was enabled then) next to events of the user;
\* mirrors of s1 only; events of the user only.
CleanupStores ==
  LET none == [s \in SubscriptionIds |-> [e \in EventIds |-> NoRow]]
      st0  == [s \in SubscriptionIds |->
                 [last_run_status |-> "none", failedAt |-> 0, last_successful_sync_ts |-> 0]]
      ran  == [last_run_status |-> "success", failedAt |-> 0, last_successful_sync_ts |-> 1]
      mirror(s, e, g) == DestEvent(googleTargetCalendarId(s), g, cyclePayload(e, s))
      users == {UserEvent("primary", 5), UserEvent("team", 6)}
  IN  { [mappings |-> [none EXCEPT !["s1"]["a"] = 1, !["s1"]["b"] = 2,
                                   !["s3"]["a"] = 3, !["s2"]["a"] = 4],
         dest |-> {mirror("s1", "a", 1), mirror("s1", "b", 2), mirror("s3", "a", 3),
                   mirror("s2", "a", 4)} \cup users,
         syncState |-> [s \in SubscriptionIds |-> ran]],
        [mappings |-> [none EXCEPT !["s1"]["a"] = 1],
         dest |-> {mirror("s1", "a", 1)} \cup users,
         syncState |-> [st0 EXCEPT !["s1"] = ran]],
        [mappings |-> none, dest |-> users, syncState |-> st0] }

CleanupInit ==
  /\ \E store \in CleanupStores :
       /\ mappings = store.mappings
       /\ dest = store.dest
       /\ syncState = store.syncState
  /\ nextGoogleId = 1
  /\ phase = "boot"
  /\ cycleRunning = FALSE
  /\ shuttingDown = FALSE
  /\ nBatches = 0
  /\ batch = [b \in BatchSlots |-> IdleBatch]
  /\ returned = NoReturn
  /\ summary = NoSummary
  /\ skipLogged = FALSE
  /\ prev = [s \in SubscriptionIds |-> NoPrev]
  /\ oob = [s \in SubscriptionIds |-> FALSE]
  /\ retry = NoCall
  /\ settled = NoSettled
  /\ args \in CleanupOptions
  /\ result = NoResult

\* GoogleCalendarClient.listEventsByPrivateExtendedProperties(calendarId, {app}):
\* the ids of the events of the calendar whose private property `app` has the
\* value asked for.
ListsWholeCalendarBug(calendarId, app) ==
  Ascending({ev.id : ev \in {x \in dest : x.calendarId = calendarId}})

listEventsByPrivateExtendedProperties(calendarId, app) ==
  Ascending({ev.id : ev \in {x \in dest : x.calendarId = calendarId /\ x.app = app}})

selectedSubscriptions(options) ==
  IF options.subscription # <<>>
  THEN SelectSeq(RuntimeSubscriptions, LAMBDA s : s \in Range(options.subscription))
  ELSE RuntimeSubscriptions

\* Array.from(new Set(requested or derived calendars))
targetCalendars(options) ==
  LET selected == selectedSubscriptions(options)
      derivedCalendars == [k \in 1..Len(selected) |-> googleTargetCalendarId(selected[k])]
      calendars == IF options.calendar # <<>> THEN options.calendar ELSE derivedCalendars
  IN  MapOrder(calendars, calendars, {})

\* config.subscriptions.filter(targetCalendars.includes(googleTargetCalendarId))
AffectsEveryoneBug(options) ==
  [k \in 1..Len(ConfigSubscriptions) |-> ConfigSubscriptions[k].id]

affectedSubscriptions(options) ==
  SelectSeq([k \in 1..Len(ConfigSubscriptions) |-> ConfigSubscriptions[k].id],
            LAMBDA s : googleTargetCalendarId(s) \in Range(targetCalendars(options)))

\* eventsToDeleteByCalendar, flattened in the order the delete loops walk it.
eventsToDeleteByCalendar(options) ==
  LET calendars == targetCalendars(options)
      ofCalendar(k) ==
        LET ids == listEventsByPrivateExtendedProperties(calendars[k], APP_MARKER)
        IN  [i \in 1..Len(ids) |-> [calendarId |-> calendars[k], eventId |-> ids[i]]]
  IN  Flatten([k \in 1..Len(calendars) |-> ofCalendar(k)])

\* DbClient.deleteAllMappings(subscriptionId), DbClient.deleteAllState(subscriptionId)
KeepsMappingsBug(maps, s) == maps

deleteAllMappings(maps, s) == [maps EXCEPT ![s] = [e \in EventIds |-> NoRow]]

deleteAllState(st, s) ==
  [st EXCEPT ![s] = [last_run_status |-> "none", failedAt |-> 0, last_successful_sync_ts |-> 0]]

\* for (const subscription of affectedSubscriptions) { deleteAllMappings; deleteAllState }
resetAffected(affected) ==
  /\ mappings' = [s \in SubscriptionIds |->
                    IF s \in Range(affected) THEN deleteAllMappings(mappings, s)[s]
                    ELSE mappings[s]]
  /\ syncState' = [s \in SubscriptionIds |->
                     IF s \in Range(affected) THEN deleteAllState(syncState, s)[s]
                     ELSE syncState[s]]

\* The action of the command up to its first awaited deleteEvent, or to its end
\* when it returns or throws before.
cleanupManagedRuns ==
  /\ result = NoResult
  /\ LET options == args
         selected == selectedSubscriptions(options)
         missing == SelectSeq(options.subscription, LAMBDA id : id \notin Range(selected))
         calendars == targetCalendars(options)
         eventsToDelete == eventsToDeleteByCalendar(options)
         affected == affectedSubscriptions(options)
         locals(pc) == [pc |-> pc, eventsToDelete |-> eventsToDelete,
                        affectedSubscriptions |-> affected, deletedEventCount |-> 0]
         stops(pc) == result' = <<locals(pc)>> /\ UNCHANGED <<mappings, syncState>>
     IN  IF \/ ~options.googleToken
            \/ selected = <<>>
            \/ missing # <<>>
            \/ calendars = <<>>
         THEN stops("thrown")
         ELSE \E listStatus \in ListStatuses :
                IF listStatus # 200 THEN stops("thrown")
                ELSE IF options.dryRun THEN stops("returned")
                ELSE IF ~options.yes THEN stops("thrown")
                ELSE IF eventsToDelete # <<>> THEN stops("deleteEvent")
                ELSE result' = <<locals("done")>> /\ resetAffected(affected)
  /\ UNCHANGED <<dest, nextGoogleId, phase, cycleRunning, shuttingDown,
                 nBatches, batch, returned, summary, skipLogged, prev, oob,
                 retry, settled, args>>

\* await googleClient.deleteEvent(calendarId, eventId) settles: the loops go on
\* to the next event, or past the last one to the reset of the rows.
cleanupDeleteEventResponds ==
  /\ result # NoResult
  /\ result[1].pc = "deleteEvent"
  /\ LET locals == result[1]
         next == Head(locals.eventsToDelete)
         rest == Tail(locals.eventsToDelete)
     IN  \E status \in DeleteStatuses(next.eventId) :
           IF deleteEvent(status) = "throw"
           THEN /\ result' = <<[locals EXCEPT !.pc = "thrown"]>>
                /\ UNCHANGED <<dest, mappings, syncState>>
           ELSE /\ dest' = {ev \in dest : ~(ev.calendarId = next.calendarId
                                            /\ ev.id = next.eventId)}
                /\ IF rest # <<>>
                   THEN /\ result' = <<[locals EXCEPT !.eventsToDelete = rest,
                                                      !.deletedEventCount = @ + 1]>>
                        /\ UNCHANGED <<mappings, syncState>>
                   ELSE /\ result' = <<[locals EXCEPT !.pc = "done",
                                                      !.eventsToDelete = rest,
                                                      !.deletedEventCount = @ + 1]>>
                        /\ resetAffected(locals.affectedSubscriptions)
  /\ UNCHANGED <<nextGoogleId, phase, cycleRunning, shuttingDown,
                 nBatches, batch, returned, summary, skipLogged, prev, oob,
                 retry, settled, args>>

CleanupNext == cleanupManagedRuns \/ cleanupDeleteEventResponds

CleanupSpec == CleanupInit /\ [][CleanupNext]_vars

\* ---------------------------------------------- cleanup, then the daemon
\* cleanup:managed --yes is run to its end on what earlier runs left, and the
\* start command is launched afterwards on the same database and calendars.
CleanupThenStartInit ==
  /\ CleanupInit
  /\ args.googleToken
  /\ args.yes
  /\ ~args.dryRun
  /\ args.subscription = <<>>
  /\ args.calendar \in {<<>>, <<"team">>}

CleanupCompleted == result # NoResult /\ result[1].pc = "done"

CleanupThenStartNext ==
  \/ cleanupManagedRuns
  \/ cleanupDeleteEventResponds
  \/ CleanupCompleted /\ StartCommand
  \/ CleanupCompleted /\ TimerFires
  \/ CleanupCompleted /\ Signal
  \/ CleanupCompleted /\ PollFires
  \/ CleanupCompleted /\ AwaitSettles

CleanupThenStartSpec == CleanupThenStartInit /\ [][CleanupThenStartNext]_vars

\* ================================================== the Microsoft source
MaxGraphEvents == 2

\* GraphEvent, by the fields normalizeOutlookEvent decides on: id ("" when
\* missing), start and end (present or not), type, isCancelled.
GraphEvent ==
  [id : {"", "m1", "o1"},
   hasStart : BOOLEAN,
   hasEnd : {TRUE},
   type : {"seriesMaster", "occurrence", "singleInstance"},
   isCancelled : BOOLEAN]

null == [null |-> TRUE]

KeepsSeriesMasterBug(event) ==
  IF event.id = "" \/ ~event.hasStart \/ ~event.hasEnd THEN null
  ELSE [id |-> event.id, isCancelled |-> event.isCancelled,
        isRecurringMaster |-> (event.type = "seriesMaster")]

normalizeOutlookEvent(event) ==
  IF event.id = "" \/ ~event.hasStart \/ ~event.hasEnd THEN null
  ELSE IF event.type = "seriesMaster" THEN null
  ELSE [id |-> event.id, isCancelled |-> event.isCancelled,
        isRecurringMaster |-> (event.type = "seriesMaster")]

\* MicrosoftSourceClient.listEvents, once listCalendarView has returned graphEvents
MicrosoftSourceClient_listEvents(graphEvents) ==
  LET normalized == [k \in 1..Len(graphEvents) |-> normalizeOutlookEvent(graphEvents[k])]
  IN  [fetchedCount |-> Len(graphEvents),
       events |-> SelectSeq(normalized, LAMBDA event : event # null)]

GraphInit ==
  /\ Boot
  /\ retry = NoCall
  /\ settled = NoSettled
  /\ args \in UNION {[1..n -> GraphEvent] : n \in 0..MaxGraphEvents}
  /\ result = NoResult

listCalendarViewReturns ==
  /\ result = NoResult
  /\ result' = <<MicrosoftSourceClient_listEvents(args)>>
  /\ UNCHANGED <<mappings, syncState, dest, nextGoogleId, phase, cycleRunning, shuttingDown,
                 nBatches, batch, returned, summary, skipLogged, prev, oob,
                 retry, settled, args>>

GraphSpec == GraphInit /\ [][listCalendarViewReturns]_vars

\* ================================================================== claims
\* A runCycle call as the properties see it: one that has fetched and is waiting
\* for a destination call, or the one that ended in this step.
Fetched(b) == batch[b].pc \notin {"idle", "listEvents"}

RunningCycles ==
  {[sub |-> CurrentSub(b), sourceEvents |-> batch[b].sourceEvents,
    active |-> batch[b].active, mappingSnap |-> batch[b].mappingSnap,
    stale |-> batch[b].stale, calls |-> batch[b].calls, metrics |-> batch[b].metrics,
    staleKnown |-> batch[b].j > 0, state |-> "running"] : b \in {x \in BatchSlots : Fetched(x)}}

EndedCycles ==
  IF returned.sub = "" \/ ~returned.fetched THEN {}
  ELSE {[sub |-> returned.sub, sourceEvents |-> returned.sourceEvents,
         active |-> returned.active, mappingSnap |-> returned.mappingSnap,
         stale |-> returned.stale, calls |-> returned.calls, metrics |-> returned.metrics,
         staleKnown |-> returned.ok,
         state |-> IF returned.ok THEN "returned" ELSE "threw"]}

Cycles == RunningCycles \cup EndedCycles

Completed == {c \in Cycles : c.state = "returned"}

\* The ids of the non-cancelled occurrences of a source batch.
NonCancelledIds(evs) == {evs[k].id : k \in {x \in 1..Len(evs) : ~evs[x].isCancelled}}

CancelledIds(evs) == {evs[k].id : k \in {x \in 1..Len(evs) : evs[x].isCancelled}}

MappedIds(s) == {e \in EventIds : mappings[s][e] # NoRow}

Calls(c, ops, statuses) ==
  {k \in 1..Len(c.calls) : c.calls[k].op \in ops /\ c.calls[k].status \in statuses}

\* C1 (as stated): a cycle that repeats the previous completed cycle of its
\* subscription on unchanged source data and an undisturbed destination performs
\* zero creates, zero updates and zero deletes and issues no mutating call.
C1_ZeroMutations ==
  (returned.ok /\ returned.repeat) =>
     /\ returned.metrics.created = 0
     /\ returned.metrics.updated = 0
     /\ returned.metrics.deleted = 0
     /\ returned.calls = <<>>

\* C1 (amended): such a repeated cycle performs zero creates and zero deletes,
\* and one successful update per active occurrence, on the destination id already
\* stored; it leaves the subscription's mapping records as they were.
C1_RepeatOnlyUpdates ==
  (returned.ok /\ returned.repeat) =>
     /\ returned.metrics.created = 0
     /\ returned.metrics.deleted = 0
     /\ returned.metrics.updated = Cardinality(NonCancelledIds(returned.sourceEvents))
     /\ \A k \in 1..Len(returned.calls) :
          /\ returned.calls[k].op = "update"
          /\ returned.calls[k].status = 200
          /\ returned.calls[k].googleEventId =
               MappedGoogleId(returned.mappingSnap, returned.calls[k].id)
     /\ \A e \in EventIds :
          mappings[returned.sub][e] = MappedGoogleId(returned.mappingSnap, e)

C1_Witness ==
  /\ returned.ok
  /\ returned.repeat
  /\ returned.metrics.updated > 0

\* C2: after a runCycle that completes, the sourceEventId keys of the
\* subscription's mapping records are exactly the ids of the non-cancelled
\* occurrences the source returned, each with one destination id of its own.
C2_MirrorPostCondition ==
  \A c \in Completed :
     /\ MappedIds(c.sub) = NonCancelledIds(c.sourceEvents)
     /\ \A e1, e2 \in MappedIds(c.sub) :
          e1 # e2 => mappings[c.sub][e1] # mappings[c.sub][e2]

C2_Witness ==
  \E c \in Completed :
     /\ NonCancelledIds(c.sourceEvents) # {}
     /\ CancelledIds(c.sourceEvents) # {}
     /\ c.stale # <<>>
     /\ c.metrics.created > 0

\* C3: the stale set is the mapped identities that are not active, in mapping
\* order ({a,b,c} against {a,c,d} gives {b}); after a cycle that completes every
\* stale identity has had a delete issued for its stored destination id and its
\* mapping record removed, and no mapping of an active identity was removed.
IsSubsequenceOf(sub, seq) ==
  \E f \in [1..Len(sub) -> 1..Len(seq)] :
     /\ \A k \in 1..Len(sub) : seq[f[k]] = sub[k]
     /\ \A k1, k2 \in 1..Len(sub) : k1 < k2 => f[k1] < f[k2]

C3_StaleDetection ==
  /\ findStaleOutlookIds(<<"a", "b", "c">>, {"a", "c", "d"}) = <<"b">>
  /\ findStaleOutlookIds(<<"a", "b">>, {"a", "b", "c"}) = <<>>
  /\ \A c \in Cycles :
       c.staleKnown =>
         /\ Range(c.stale) = Range(SnapKeys(c.mappingSnap)) \ NonCancelledIds(c.sourceEvents)
         /\ Len(c.stale) = Cardinality(Range(c.stale))
         /\ IsSubsequenceOf(c.stale, SnapKeys(c.mappingSnap))
  /\ \A c \in Completed :
       /\ \A k \in 1..Len(c.stale) :
            /\ mappings[c.sub][c.stale[k]] = NoRow
            /\ \E n \in Calls(c, {"delete"}, {204, 404}) :
                 /\ c.calls[n].id = c.stale[k]
                 /\ c.calls[n].googleEventId = MappedGoogleId(c.mappingSnap, c.stale[k])
       /\ \A e \in NonCancelledIds(c.sourceEvents) :
            /\ mappings[c.sub][e] # NoRow
            /\ \A n \in Calls(c, {"delete"}, {204, 404} \cup ErrorStatuses) : c.calls[n].id # e

C3_Witness ==
  \E c \in Completed :
     /\ Len(c.stale) > 0
     /\ c.metrics.updated > 0
     /\ c.metrics.deleted = Len(c.stale)

\* The effect of a cycle's answered calls on the mapping rows it started from.
RECURSIVE Replay(_, _)
Replay(rows, calls) ==
  IF calls = <<>> THEN rows
  ELSE LET before == Replay(rows, SubSeq(calls, 1, Len(calls) - 1))
           call   == calls[Len(calls)]
       IN  IF call.op \in {"create", "update"} /\ call.status = 200
           THEN [before EXCEPT ![call.id] = call.googleEventId]
           ELSE IF call.op = "delete" /\ call.status \in {204, 404}
           THEN [before EXCEPT ![call.id] = NoRow]
           ELSE before

SnapRows(snap) == [e \in EventIds |-> MappedGoogleId(snap, e)]

\* A cycle that threw after its fetch did so on a destination call that failed
\* for good, never on a 404 of updateEvent or deleteEvent.
ThrewOnError(c) ==
  c.state = "threw" =>
     /\ c.calls # <<>>
     /\ c.calls[Len(c.calls)].status \in ErrorStatuses

\* C4: when updateEvent on the stored destination id answers 404, the cycle
\* creates a new destination event, overwrites the mapping of that occurrence
\* with the new id, counts it as created and goes on; the 404 does not fail it.
C4_SelfHealingOnUpdate ==
  \A c \in Cycles :
     /\ ThrewOnError(c)
     /\ c.metrics.created = Cardinality(Calls(c, {"create"}, {200}))
     /\ c.metrics.updated = Cardinality(Calls(c, {"update"}, {200}))
     /\ \A k \in Calls(c, {"update"}, {404}) :
          /\ k < Len(c.calls) =>
               /\ c.calls[k + 1].op = "create"
               /\ c.calls[k + 1].id = c.calls[k].id
               /\ c.calls[k + 1].status = 200 =>
                    /\ mappings[c.sub][c.calls[k].id] = c.calls[k + 1].googleEventId
                    /\ c.calls[k + 1].googleEventId # c.calls[k].googleEventId
          /\ k = Len(c.calls) => c.state = "running"

C4_Witness ==
  \E c \in Completed :
     \E k \in Calls(c, {"update"}, {404}) :
        /\ k + 1 < Len(c.calls)
        /\ c.calls[k + 1].op = "create"
        /\ c.calls[k + 1].status = 200
        /\ mappings[c.sub][c.calls[k].id] = c.calls[k + 1].googleEventId

\* C5: a 404 on deleting the destination event of a stale mapping counts as
\* done: the mapping record is removed and the cycle neither throws nor is
\* recorded as failed because of it; any other delete error propagates, the
\* cycle is recorded as failed and that mapping stays in place.
C5_NotFoundOnDeleteIsSuccess ==
  \A c \in Cycles :
     /\ \A k \in Calls(c, {"delete"}, {204, 404}) :
          /\ mappings[c.sub][c.calls[k].id] = NoRow
          /\ c.metrics.deleted >= 1
          /\ k = Len(c.calls) => c.state # "threw"
     /\ c.metrics.deleted = Cardinality(Calls(c, {"delete"}, {204, 404}))
     /\ \A k \in Calls(c, {"delete"}, ErrorStatuses) :
          /\ k = Len(c.calls)
          /\ c.state = "threw"
          /\ syncState[c.sub].last_run_status = "failed"
          /\ mappings[c.sub][c.calls[k].id] = c.calls[k].googleEventId
          /\ c.calls[k].googleEventId # NoRow

C5_Witness ==
  \E c \in Completed :
     \E k \in Calls(c, {"delete"}, {404}) :
        /\ mappings[c.sub][c.calls[k].id] = NoRow
        /\ syncState[c.sub].last_run_status = "success"

C5_WitnessOtherError ==
  \E c \in Cycles :
     \E k \in Calls(c, {"delete"}, ErrorStatuses) :
        mappings[c.sub][c.calls[k].id] # NoRow

\* C6: an occurrence with isCancelled = true is never the subject of a create or
\* update call; a mapping that exists for its id is stale in the same cycle, so
\* when the cycle completes its destination event has had its delete and the
\* mapping is removed.
C6_CancelledIsAbsent ==
  /\ \A b \in BatchSlots :
       batch[b].pc \in {"createEvent", "updateEvent", "recreateEvent"} =>
          batch[b].active[batch[b].i] \notin CancelledIds(batch[b].sourceEvents)
  /\ \A c \in Cycles :
       \A e \in CancelledIds(c.sourceEvents) :
          /\ \A k \in 1..Len(c.calls) : c.calls[k].id = e => c.calls[k].op = "delete"
          /\ (c.staleKnown /\ MappedGoogleId(c.mappingSnap, e) # NoRow) =>
                e \in Range(c.stale)
          /\ (c.state = "returned" /\ MappedGoogleId(c.mappingSnap, e) # NoRow) =>
                /\ mappings[c.sub][e] = NoRow
                /\ \E k \in Calls(c, {"delete"}, {204, 404}) :
                     /\ c.calls[k].id = e
                     /\ c.calls[k].googleEventId = MappedGoogleId(c.mappingSnap, e)
                /\ MappedGoogleId(c.mappingSnap, e) \notin DestIds

C6_Witness ==
  \E c \in Completed :
     \E e \in CancelledIds(c.sourceEvents) :
        /\ MappedGoogleId(c.mappingSnap, e) # NoRow
        /\ mappings[c.sub][e] = NoRow
        /\ NonCancelledIds(c.sourceEvents) # {}

\* C7: when a cycle throws on its k-th call, the mapping rows written or removed
\* by the calls answered before it stay as written: at every moment of a cycle,
\* and after it threw, the subscription's rows are the rows it started from with
\* the effect of each answered call, and no destination mutation is undone.
\* The next cycle starts from those rows.
C7_PartialFailureDurability ==
  /\ \A c \in Cycles :
       /\ mappings[c.sub] = Replay(SnapRows(c.mappingSnap), c.calls)
       /\ \A k \in Calls(c, {"delete"}, {204, 404}) : c.calls[k].googleEventId \notin DestIds
       /\ ~oob[c.sub] =>
            \A k \in Calls(c, {"create", "update"}, {200}) : c.calls[k].googleEventId \in DestIds
  /\ \A s \in SubscriptionIds :
       (\A c \in Cycles : c.sub # s) =>
          \A b \in BatchSlots :
             (batch[b].pc = "listEvents" /\ CurrentSub(b) = s) =>
                \A rows \in listMappings(s) : SnapRows(rows) = mappings[s]

C7_Witness ==
  \E c \in Cycles :
     /\ c.state = "threw"
     /\ Len(c.calls) >= 2
     /\ Calls(c, {"create"}, {200}) # {}
     /\ c.calls[Len(c.calls)].status \in ErrorStatuses
     /\ mappings[c.sub] # SnapRows(c.mappingSnap)

\* C8: per subscription, a cycle that completes sets last_run_status to
\* "success" and writes last_successful_sync_ts; a cycle that fails sets
\* last_run_status to "failed:<timestamp>", leaves last_successful_sync_ts as it
\* was and rethrows (the batch files it under failures); no step writes the state
\* of a subscription other than the one whose cycle ends in it.
ThrownTo(s) ==
  \/ s \in Range(summary.failures)
  \/ \E b \in BatchSlots : s \in Range(batch[b].failures)

C8_CycleOutcomePersisted ==
  [][\A s \in SubscriptionIds :
       /\ (returned'.sub = s /\ returned'.ok) =>
             /\ syncState'[s].last_run_status = "success"
             /\ syncState'[s].last_successful_sync_ts = returned'.at
             /\ returned'.at = nBatches
             /\ ~ThrownTo(s)'
       /\ (returned'.sub = s /\ ~returned'.ok) =>
             /\ syncState'[s].last_run_status = "failed"
             /\ syncState'[s].failedAt = returned'.at
             /\ returned'.at = nBatches
             /\ syncState'[s].last_successful_sync_ts = syncState[s].last_successful_sync_ts
             /\ ThrownTo(s)'
       /\ returned'.sub # s => syncState'[s] = syncState[s]
    ]_vars

C8_Witness ==
  /\ returned.sub # ""
  /\ ~returned.ok
  /\ returned.fetched
  /\ syncState[returned.sub].last_run_status = "failed"
  /\ syncState[returned.sub].last_successful_sync_ts >= 1
  /\ syncState[returned.sub].last_successful_sync_ts < syncState[returned.sub].failedAt
  /\ \E s \in SubscriptionIds \ {returned.sub} : syncState[s].last_run_status = "success"

\* C9: a batch runs the cycle of every enabled subscription exactly once, in
\* configuration order, whether or not earlier cycles failed; each subscription
\* ends in exactly one of successes and failures, so that
\* successCount + failureCount = subscriptionCount.
ConfigIndex(s) == CHOOSE k \in 1..Len(ConfigSubscriptions) : ConfigSubscriptions[k].id = s

EnabledIds ==
  {ConfigSubscriptions[k].id : k \in {x \in 1..Len(ConfigSubscriptions) : ConfigSubscriptions[x].enabled}}

InConfigOrder(seq) ==
  \A p, q \in 1..Len(seq) : p < q => ConfigIndex(seq[p]) < ConfigIndex(seq[q])

C9_BatchIsolation ==
  /\ \A b \in BatchSlots :
       batch[b].pc # "idle" =>
          LET done == Range(batch[b].successes) \cup Range(batch[b].failures)
              cur  == CurrentSub(b)
          IN  /\ cur \in EnabledIds
              /\ done = {s \in EnabledIds : ConfigIndex(s) < ConfigIndex(cur)}
              /\ Len(batch[b].successes) + Len(batch[b].failures) = Cardinality(done)
              /\ InConfigOrder(batch[b].successes)
              /\ InConfigOrder(batch[b].failures)
  /\ summary.subscriptionCount # 0 =>
       /\ summary.subscriptionCount = Cardinality(EnabledIds)
       /\ Len(summary.successes) + Len(summary.failures) = summary.subscriptionCount
       /\ Range(summary.successes) \cup Range(summary.failures) = EnabledIds
       /\ Range(summary.successes) \cap Range(summary.failures) = {}
       /\ InConfigOrder(summary.successes)
       /\ InConfigOrder(summary.failures)
  /\ \A s \in SubscriptionIds \ EnabledIds :
       /\ syncState[s].last_run_status = "none"
       /\ MappedIds(s) = {}

C9_Witness ==
  /\ summary.subscriptionCount = 2
  /\ summary.failures = <<"s1">>
  /\ summary.successes = <<"s3">>
  /\ syncState["s3"].last_run_status = "success"
  /\ syncState["s3"].last_successful_sync_ts = summary.ranAt

\* C10: at any moment at most one batch of cycles is executing, and cycleRunning
\* is set while it does; an interval trigger that fires while a batch executes
\* starts no cycle and leaves nothing behind: a batch only ever starts in the
\* step of a trigger that found no batch executing.
Executing == {b \in BatchSlots : batch[b].pc # "idle"}

C10_NoOverlappingBatches ==
  /\ [](Cardinality(Executing) <= 1 /\ (Executing # {} => cycleRunning))
  /\ [][/\ (TimerFires /\ Executing # {}) =>
              /\ batch' = batch
              /\ nBatches' = nBatches
              /\ cycleRunning' = cycleRunning
              /\ skipLogged'
        /\ (nBatches' # nBatches \/ Executing' \ Executing # {}) =>
              /\ StartCommand \/ TimerFires
              /\ Executing = {}
              /\ ~cycleRunning
              /\ nBatches' = nBatches + 1
              /\ Executing' = {nBatches'}
       ]_vars

C10_Witness ==
  /\ skipLogged
  /\ cycleRunning
  /\ Executing # {}
  /\ phase = "serving"

\* C11: a termination signal that arrives while a batch is in flight, the
\* initial batch or one the timer started, is followed by no new batch, and the
\* process does not end (exit or be killed) before the in-flight batch has
\* finished.
Signalled == shuttingDown \/ phase = "killed"

ProcessEnded == phase \in {"exited", "killed"}

C11_CooperativeShutdown ==
  /\ [](ProcessEnded => Executing = {})
  /\ [][(Signalled \/ Signal) => nBatches' = nBatches]_vars

\* C12: withRetry invokes the wrapped operation at least once and at most
\* maxAttempts times; it ends at the first invocation that succeeds, handing its
\* result to the caller, and otherwise by raising the error of the last
\* invocation, which the cycle records as its failure.
HandledNotFound(op, status) == status = 404 /\ op \in {"updateEvent", "deleteEvent"}

CycleFailedWith(s, status) ==
  /\ returned.sub = s
  /\ ~returned.ok
  /\ returned.error = status
  /\ syncState[s].last_run_status = "failed"
  /\ ThrownTo(s)

InRetryableClass(status) ==
  status = 429 \/ (status >= 500 /\ status <= 599) \/ status = TimeoutError

C13_RetryableClass ==
  (settled.op # "" /\ ~settled.resolved /\ InRetryableClass(settled.status)) =>
     settled.attempts = maxAttempts

\* C14: an invocation that fails with a non-retryable status (400, 401, 403,
\* and 404 on listEvents or createEvent) is not followed by a wait or another
\* invocation: the error ends the call in the same step, the cycle of the
\* current subscription is recorded as failed with it, and the batch goes on to
\* the next subscription (or returns its summary).
PermanentFailure(op, status) ==
  \/ status \in {400, 401, 403}
  \/ status = 404 /\ op \in {"listEvents", "createEvent", "recreateEvent"}

BatchWentOn(s) ==
  IF s = RuntimeSubscriptions[Len(RuntimeSubscriptions)]
  THEN /\ summary.subscriptionCount = Len(RuntimeSubscriptions)
       /\ s \in Range(summary.failures)
  ELSE \E b \in BatchSlots :
          /\ batch[b].pc = "listEvents"
          /\ ConfigIndex(CurrentSub(b)) > ConfigIndex(s)
          /\ s \in Range(batch[b].failures)

CarriesHint(retryAfter) == retryAfter.present /\ retryAfter.text # ""

Backoff(k) == Min(1000 * 2 ^ (k - 1), 30000)

C15_HintTakesPrecedence ==
  result # NoResult =>
     IF CarriesHint(args.retryAfter)
     THEN /\ ~Number(args.retryAfter.text).nan
          /\ result[1] = Max(Number(args.retryAfter.text).value * 1000, 1000)
     ELSE result[1] = Backoff(args.attempt) + args.jitter

\* C15 (amended): a retry-after value that converts to a number makes the wait
\* max(1000 * value, 1000) ms; with no header, an empty one or one that is not
\* a number (an HTTP date), the wait is min(1000 * 2^(k-1), 30000) + j with
\* 0 <= j < 250: its base never decreases as k grows and it never exceeds
\* 30249 ms.
NumericHint(retryAfter) == CarriesHint(retryAfter) /\ ~Number(retryAfter.text).nan

C15_RetryDelay ==
  result # NoResult =>
     IF NumericHint(args.retryAfter)
     THEN /\ result[1] = Max(Number(args.retryAfter.text).value * 1000, 1000)
          /\ result[1] >= 1000
     ELSE /\ result[1] = Backoff(args.attempt) + args.jitter
          /\ args.jitter \in 0..249
          /\ result[1] <= 30249
          /\ result[1] - args.jitter <=
               getRetryDelayMs(args.retryAfter, args.attempt + 1, args.jitter) - args.jitter

C15_Witness ==
  /\ result = <<30249>>
  /\ args.retryAfter.text = HttpDate
  /\ args.attempt > 5

\* ------------------------------------------------------------------ C16
\* The call of parseIcsToSourceEvents under study has returned.
Parsed == result # NoResult

ReturnedEvents == { result[1].events[i] : i \in 1..Len(result[1].events) }

\* The records of the feed under study: built from its blocks, selected for
\* the window, left by deduplication.
FeedEntries ==
  LET built == intermediateEventsOf(args.feed, args.processZone)
  IN  { built[i] : i \in 1..Len(built) }

SelectedEntries ==
  LET selected == selectedEventsOf(intermediateEventsOf(args.feed, args.processZone),
                                   args.windowStartMs, args.windowEndMs, args.processZone)
  IN  { selected[i] : i \in 1..Len(selected) }

EmittedEntries ==
  dedupedById(selectedEventsOf(intermediateEventsOf(args.feed, args.processZone),
                               args.windowStartMs, args.windowEndMs, args.processZone), {})

Freestanding == { entry \in FeedEntries : ~entry.hasRrule /\ entry.recurrenceId = NoToken }

InWindow(entry) == entry.endMs > args.windowStartMs /\ entry.startMs < args.windowEndMs

\* Every returned event is the event of a record whose instants lie in the
\* half-open window; none ends at the window's start or starts at its end.
ReturnedInWindow ==
  /\ ReturnedEvents = { entry.event : entry \in EmittedEntries }
  /\ \A entry \in EmittedEntries :
       /\ InWindow(entry)
       /\ entry.endMs # args.windowStartMs
       /\ entry.startMs # args.windowEndMs

\* C16 as stated: every returned occurrence satisfies end > window.start and
\* start < window.end, an event ending at window.start or starting at
\* window.end is never returned, and every freestanding event in the window is
\* returned.
C16_HalfOpenWindow ==
  Parsed =>
    /\ ReturnedInWindow
    /\ \A entry \in Freestanding : InWindow(entry) => entry.event \in ReturnedEvents

\* C16, amended: every returned occurrence lies in the half-open window, and
\* for every freestanding event in the window exactly one event with its id is
\* returned: the event itself, unless the feed yields another selected record
\* with that id, and then one whose last-modified time is not earlier than that
\* of any other record with the id.
C16_WindowMembership ==
  Parsed =>
    /\ ReturnedInWindow
    /\ \A entry \in Freestanding :
         InWindow(entry) =>
           /\ Cardinality({ e \in ReturnedEvents : e.id = entry.event.id }) = 1
           /\ \/ entry.event \in ReturnedEvents
              \/ \E other \in SelectedEntries :
                   /\ other # entry
                   /\ other.event.id = entry.event.id
                   /\ other.event \in ReturnedEvents
           /\ \A e \in ReturnedEvents :
                e.id = entry.event.id =>
                  \A other \in SelectedEntries :
                    other.event.id = e.id =>
                      e.lastModifiedDateTime >= other.event.lastModifiedDateTime

\* A feed with a freestanding event straddling the window's start, returned,
\* and one ending exactly at the window's start, not returned.
C16_Witness ==
  /\ Parsed
  /\ \E kept \in Freestanding :
       /\ kept.startMs < args.windowStartMs
       /\ kept.endMs > args.windowStartMs
       /\ kept.event \in ReturnedEvents
  /\ \E dropped \in Freestanding :
       /\ dropped.endMs = args.windowStartMs
       /\ dropped.event \notin ReturnedEvents

\* ------------------------------------------------------------------ C17
\* The master records of the feed, and those that stand for their UID: of
\* several master blocks with one UID the last.
MasterEntries == { entry \in FeedEntries : entry.hasRrule /\ entry.recurrenceId = NoToken }

StandingMasters ==
  LET masters == recurringMastersByUid(intermediateEventsOf(args.feed, args.processZone))
  IN  { masters[i] : i \in 1..Len(masters) }

\* The identity tokens of the instants a FREQ=DAILY;COUNT=n rule generates from
\* the master's start (UTC and all-day masters).
GeneratedTokens(master) ==
  IF master.rrule \in {NoRule, BadRule} THEN {}
  ELSE { toTemporalIdentityToken(master.event.isAllDay, master.startMs + k * DayMs,
                                 toUtcDateString(master.startMs + k * DayMs)) :
           k \in 0..(master.rrule - 1) }

ExcludedTokens(master) == master.exdateTokens \cap GeneratedTokens(master)

OverrideEntries == { entry \in FeedEntries : ~entry.hasRrule /\ entry.recurrenceId # NoToken }

\* C17 as stated: for a recurring master whose EXDATE contains the token t of
\* an instant its rule generates, no event with id <uid>::t is returned,
\* whatever the window and the feed.
C17_ExclusionSuppresses ==
  Parsed =>
    \A master \in MasterEntries : \A t \in ExcludedTokens(master) :
      \A e \in ReturnedEvents : e.id # <<master.uid, t>>

\* C17, amended: for the master that stands for its UID and excludes the token
\* t of an instant its rule generates, no occurrence expanded from the rule at
\* t is returned: an event with id <uid>::t is returned only as the event of an
\* in-window override block of the feed anchored at t.
C17_ExcludedNotExpanded ==
  Parsed =>
    \A master \in StandingMasters : \A t \in ExcludedTokens(master) :
      \A e \in ReturnedEvents :
        e.id = <<master.uid, t>> =>
          \E override \in OverrideEntries :
            /\ override.uid = master.uid
            /\ override.recurrenceId = t
            /\ InWindow(override)
            /\ e = override.event

\* A master excluding an instant of its rule that lies in the window: nothing
\* is returned for the instant, while another occurrence of the series is.
C17_Witness ==
  /\ Parsed
  /\ \E master \in StandingMasters : \E t \in ExcludedTokens(master) :
       /\ t[1] = "instant"
       /\ t[2] + master.durationMs > args.windowStartMs
       /\ t[2] < args.windowEndMs
       /\ \A e \in ReturnedEvents : e.id # <<master.uid, t>>
       /\ \E e \in ReturnedEvents :
            /\ e.seriesMasterId = master.uid
            /\ e.title = master.event.title
            /\ e.id # <<master.uid, t>>

\* ------------------------------------------------------------------ C18
\* The overrides of the feed as the parser keys them, by series and anchor: of
\* several blocks with one key the last stands.
StandingOverrides ==
  LET overrides == overridesByUid(intermediateEventsOf(args.feed, args.processZone))
  IN  { overrides[i] : i \in 1..Len(overrides) }

\* The anchor of the override is the token of an instance the expansion of its
\* series generates for the window.
MatchesGenerated(override) ==
  \E master \in StandingMasters :
    /\ master.uid = override.uid
    /\ override.recurrenceId \in GeneratedTokens(master) \ master.exdateTokens
    /\ LET startMs == override.recurrenceId[2] * (IF master.event.isAllDay THEN DayMs ELSE 1)
       IN  startMs + master.durationMs > args.windowStartMs /\ startMs < args.windowEndMs

EventsWithId(id) == { e \in ReturnedEvents : e.id = id }

\* C18: an override whose anchor matches a generated instance of its series
\* and that is itself in the window is returned as the one event with id
\* <uid>::<anchor>, with the override's title, start and end, and the generated
\* instance is not returned besides it; an override whose anchor matches no
\* generated instance is returned once, standalone, iff it is in the window.
C18_OverrideReplaces ==
  Parsed =>
    \A override \in StandingOverrides :
      LET id == <<override.uid, override.recurrenceId>>
      IN  /\ (MatchesGenerated(override) /\ InWindow(override)) =>
               /\ Cardinality(EventsWithId(id)) = 1
               /\ \A e \in EventsWithId(id) :
                    /\ e.title = override.event.title
                    /\ e.start = override.event.start
                    /\ e.end = override.event.end
               /\ Len(SelectSeq(result[1].events, LAMBDA e : e.id = id)) = 1
          /\ ~MatchesGenerated(override) =>
               /\ InWindow(override) <=> EventsWithId(id) = {override.event}
               /\ Len(SelectSeq(result[1].events, LAMBDA e : e.id = id)) <= 1

\* An override moving the occurrence of day 1 of a series, returned in its
\* place next to an untouched occurrence of the series.
C18_Witness ==
  /\ Parsed
  /\ \E override \in StandingOverrides :
       /\ MatchesGenerated(override)
       /\ InWindow(override)
       /\ override.startMs # override.recurrenceId[2]
       /\ override.event \in ReturnedEvents
       /\ \E e \in ReturnedEvents :
            /\ e.seriesMasterId = override.uid
            /\ e.id # override.event.id
            /\ e.id = <<override.uid, <<"instant", e.start[2]>>>>
  /\ \E override \in StandingOverrides :
       /\ ~MatchesGenerated(override)
       /\ InWindow(override)
       /\ override.event \in ReturnedEvents

\* ------------------------------------------------------------------ C20
\* The end a block computes: its DTEND, or by default 24 hours (all-day) or
\* 30 minutes (timed) after its start.
ComputedStartMs(block) == parseTemporal(block.DTSTART, args.processZone).startMs

ComputedEndMs(block) ==
  IF block.DTEND.kind # "none" THEN parseTemporal(block.DTEND, args.processZone).startMs
  ELSE IF block.DTSTART.kind = "date" THEN ComputedStartMs(block) + 86400000
  ELSE ComputedStartMs(block) + 1800000

FeedBlocks == { args.feed[i] : i \in 1..Len(args.feed) }

\* C20: every returned occurrence has its emitted end strictly after its
\* emitted start, as instants for timed events and as calendar dates for
\* all-day events; a block whose computed end is not after its start yields no
\* record; a block without DTEND ends 24 hours (all-day) or 30 minutes (timed)
\* after its start.
C20_EndAfterStart ==
  Parsed =>
    /\ \A e \in ReturnedEvents :
         /\ e.start[1] = e.end[1]
         /\ e.end[2] > e.start[2]
    /\ \A block \in FeedBlocks :
         LET built == buildIntermediateEvent(block, args.processZone)
         IN  /\ ComputedEndMs(block) <= ComputedStartMs(block) => ~IsBuilt(built)
             /\ IsBuilt(built) => built.endMs = ComputedEndMs(block)
    /\ result[1].fetchedCount =
         Cardinality({ i \in 1..Len(args.feed) :
                         ComputedEndMs(args.feed[i]) > ComputedStartMs(args.feed[i]) })

\* ------------------------------------------------------------------ C19
\* The time of day an instant shows on the wall clock of a zone.
WallClockTimeOfDay(epochMs, timeZone) ==
  (epochMs + getTimeZoneOffsetMs(timeZone, epochMs)) % DayMs

\* C19: every occurrence expanded from a zone-qualified timed master shows, in
\* the master's zone, the wall-clock time of day of the master's start, one
\* occurrence for each instant of the rule, and the result is the same in a
\* process of any time zone.
C19_WallClockPreserved ==
  Parsed =>
    LET master == args.feed[1]
    IN  /\ Len(result[1].events) = master.RRULE
        /\ \A e \in ReturnedEvents :
             WallClockTimeOfDay(e.start[2], master.DTSTART.tzid) = master.DTSTART.wall % DayMs
        /\ \A processZone \in TimeZones :
             result[1] = parseIcsToSourceEvents(args.feed, args.windowStartMs,
                                                args.windowEndMs, processZone)

\* ------------------------------------------------------------------ C21
\* The source kind configured for a subscription.
SourceModeOf(s) == ConfigSubscriptions[ConfigIndex(s)].sourceMode

\* The destination id of the event is stored under the pair (subscription id,
\* occurrence id) its metadata names.
StoredUnderItsKey(ev) ==
  /\ ev.subscription_id \in SubscriptionIds
  /\ ev.source_event_id \in EventIds
  /\ mappings[ev.subscription_id][ev.source_event_id] = ev.id

\* C21: every event written to the destination by a create or an update of a
\* cycle carries, as private metadata, the application marker, the source kind
\* of the subscription, the id of the subscription and the id of the
\* occurrence, and its destination id is stored in the mapping under that
\* (subscription id, occurrence id) pair.
C21_OwnershipMarker ==
  \A ev \in dest :
    /\ ev.app = "outlook-google-sync"
    /\ ev.source = SourceModeOf(ev.subscription_id)
    /\ StoredUnderItsKey(ev)

\* ---------------------------------------------------------------------- C22
\* The locals of the cleanup command once it has run.
CleanupRan == result # NoResult

\* The destination events the command still has to ask the deletion of.
AwaitingDeletion ==
  IF CleanupRan
  THEN {result[1].eventsToDelete[k] : k \in 1..Len(result[1].eventsToDelete)}
  ELSE {}

\* C22: cleanup:managed asks the deletion only of destination events that
\* carry the application marker, and removes no other event; invoked with
\* --dry-run, or without --yes, it removes no event and changes no mapping
\* row and no state row.
C22_CleanupManagedOnly ==
  [][ /\ \A ev \in dest \ dest' : ev.app = "outlook-google-sync"
      /\ \A request \in AwaitingDeletion' :
           \E ev \in dest' : /\ ev.calendarId = request.calendarId
                             /\ ev.id = request.eventId
                             /\ ev.app = "outlook-google-sync"
      /\ (args.dryRun \/ ~args.yes) =>
           /\ result'[1].pc \in {"returned", "thrown"}
           /\ UNCHANGED <<dest, mappings, syncState>> ]_vars

\* A confirmed cleanup has run to its end: it deleted events, and a calendar
\* it emptied of mirrors still holds the event of the user.
C22_Witness ==
  /\ CleanupRan
  /\ result[1].pc = "done"
  /\ result[1].deletedEventCount >= 3
  /\ \E ev \in dest :
       /\ ev.app = ""
       /\ ev.calendarId = "primary"
       /\ \A other \in dest : other.calendarId = ev.calendarId => other.app = ""

\* ---------------------------------------------------------------------- C23
TargetCalendarOf(s) == ConfigSubscriptions[ConfigIndex(s)].googleTargetCalendarId

\* The subscriptions named with --subscription.
Requested == {args.subscription[k] : k \in 1..Len(args.subscription)}

\* The calendars the command sweeps: those named with --calendar, else those
\* of the requested subscriptions.
SweptCalendars ==
  IF args.calendar # <<>> THEN {args.calendar[k] : k \in 1..Len(args.calendar)}
  ELSE {TargetCalendarOf(s) : s \in Requested \cap SubscriptionIds}

Normalizable ==
  SelectSeq(args, LAMBDA event : event.id # "" /\ event.hasStart /\ event.hasEnd
                                 /\ event.type # "seriesMaster")

\* C24: the batch MicrosoftSourceClient.listEvents returns holds, in the order
\* of the raw items, one occurrence for each raw item with an id, a start and
\* an end that is not of type seriesMaster, and none for a series master: no
\* occurrence has isRecurringMaster = true; fetchedCount is the number of raw
\* items, the filtered ones included.
C24_SeriesMastersFiltered ==
  result # NoResult =>
    /\ result[1].fetchedCount = Len(args)
    /\ Len(result[1].events) = Len(Normalizable)
    /\ \A k \in 1..Len(result[1].events) :
         /\ result[1].events[k].id = Normalizable[k].id
         /\ result[1].events[k].isCancelled = Normalizable[k].isCancelled
         /\ ~result[1].events[k].isRecurringMaster

\* A series master was returned next to one of its occurrences: the batch
\* counts both and holds the occurrence alone.
C24_Witness ==
  /\ result # NoResult
  /\ Len(args) = 2
  /\ args[1].type = "seriesMaster" /\ args[1].id = "m1" /\ args[1].hasStart
  /\ args[2].type = "occurrence" /\ args[2].id = "o1" /\ args[2].hasStart
  /\ result[1].fetchedCount = 2
  /\ Len(result[1].events) = 1
  /\ result[1].events[1].id = "o1"

\* ---------------------------------------------------------------------- C25
\* The overrides anchored at an instance the expansion generates for the
\* window, and themselves moved out of the window.
MovedOut == { override \in StandingOverrides : MatchesGenerated(override) /\ ~InWindow(override) }

\* What the stale computation of runCycle makes of a mapping kept for the id,
\* given the batch returned.
StaleAmong(mapped) ==
  findStaleOutlookIds(mapped, Range(activeEventsById(result[1].events)))

\* C25: an override anchored at a generated in-window instance whose own
\* interval does not overlap the window leaves no event with id <uid>::<anchor>
\* in the batch, neither the generated instance nor the override, so that a
\* mapping kept for that id is among the stale ids of the cycle.
C25_MovedOverrideSuppresses ==
  Parsed =>
    \A override \in MovedOut :
      /\ EventsWithId(<<override.uid, override.recurrenceId>>) = {}
      /\ override.event \notin ReturnedEvents
      /\ StaleAmong(<<override.event.id>>) = <<override.event.id>>

\* The series of u1 has an instance in the window and an override moving that
\* instance past the window's end; other instances of the series are returned.
C25_Witness ==
  /\ Parsed
  /\ \E override \in MovedOut :
       /\ override.startMs >= args.windowEndMs
       /\ \E e \in ReturnedEvents : e.seriesMasterId = override.uid /\ Len(e.id) = 2

\* ---------------------------------------------------------------------- C26
\* The master of the feed under study, its length, and the instants its rule
\* generates: the wall-clock time of DTSTART on each day, in the master's zone.
SeriesMaster == args.feed[1]

SeriesDurationMs ==
  IF SeriesMaster.DTEND.kind = "none" THEN HalfHourMs
  ELSE SeriesMaster.DTEND.wall - SeriesMaster.DTSTART.wall

InstantOf(prop, day) ==
  prop.wall + day * DayMs - (IF prop.kind = "tzid" THEN OffsetBefore(prop.tzid) ELSE 0)

GeneratedStarts == { InstantOf(SeriesMaster.DTSTART, k) : k \in 0..(SeriesMaster.RRULE - 1) }

ExcludedStarts == { InstantOf(p, 0) : p \in SeriesMaster.EXDATE }

\* The generated starts that are not excluded and whose interval
\* [s, s + duration) overlaps the window.
DueStarts ==
  { s \in GeneratedStarts \ ExcludedStarts :
      s + SeriesDurationMs > args.windowStartMs /\ s < args.windowEndMs }

\* C26: for a master whose rule parses, every generated start that is not
\* excluded and whose interval overlaps the window is returned exactly once,
\* also when it lies before the window's start, and nothing else is returned.
C26_ExpansionComplete ==
  Parsed =>
    /\ Len(result[1].events) = Cardinality(DueStarts)
    /\ { e.id : e \in ReturnedEvents } = { <<"u1", <<"instant", s>>>> : s \in DueStarts }
    /\ \A e \in ReturnedEvents : e.start = <<"dateTime", e.id[2][2]>>

\* The same, in a process whose zone is UTC.
C26_InUtcProcess == args.processZone = "UTC" => C26_ExpansionComplete

\* A start before the window whose interval reaches into it has been returned.
C26_StraddlingReturned ==
  /\ Parsed
  /\ \E s \in DueStarts : s < args.windowStartMs /\ <<"u1", <<"instant", s>>>> \in { e.id : e \in ReturnedEvents }

\* ---------------------------------------------------------------------- C27
\* The standing masters whose rule text the rule parser rejects.
UnparsedMasters == { master \in StandingMasters : master.rrule = BadRule }

\* What is selected from the feed without the master blocks of a series.
SelectedWithoutSeries(uid) ==
  LET rest == SelectSeq(args.feed, LAMBDA b : ~(b.UID = uid /\ b.RRULE # NoRule
                                                  /\ b.RECURRENCE_ID.kind = "none"))
      selected == selectedEventsOf(intermediateEventsOf(rest, args.processZone),
                                   args.windowStartMs, args.windowEndMs, args.processZone)
  IN  { selected[i] : i \in 1..Len(selected) }

\* C27: a master whose rule text does not parse makes the parse neither fail
\* nor lose other events: what is selected is what the feed without that
\* master would give, and the master itself, with its own start and end, iff
\* it overlaps the window; nothing is expanded from it.
C27_UnparsedRuleDegrades ==
  Parsed =>
    \A master \in UnparsedMasters :
      /\ SelectedEntries = SelectedWithoutSeries(master.uid)
                             \cup (IF InWindow(master) THEN {master} ELSE {})
      /\ \A e \in ReturnedEvents : e.seriesMasterId = master.uid =>
           \E override \in OverrideEntries : override.event.id = e.id
      /\ (InWindow(master) /\ \A entry \in SelectedEntries \ {master} :
                                 entry.event.id # master.event.id)
           => master.event \in ReturnedEvents

\* A feed with an unparsed master in the window next to another event in the
\* window: both are returned, the master under the id of its UID.
C27_Witness ==
  /\ Parsed
  /\ \E master \in UnparsedMasters :
       /\ InWindow(master)
       /\ master.event \in ReturnedEvents
       /\ master.event.id = <<master.uid>>
       /\ \E e \in ReturnedEvents : e.iCalUid # master.uid

\* ---------------------------------------------------------------------- C28
\* The selected records in the order they are emitted, and, for an id, the
\* places of the records that share it and have the latest last-modified
\* timestamp among them.
SelectedInOrder ==
  selectedEventsOf(intermediateEventsOf(args.feed, args.processZone),
                   args.windowStartMs, args.windowEndMs, args.processZone)

SelectedIds == { SelectedInOrder[i].event.id : i \in 1..Len(SelectedInOrder) }

LatestModified(id) ==
  LET sharing == { i \in 1..Len(SelectedInOrder) : SelectedInOrder[i].event.id = id }
      stamp(i) == SelectedInOrder[i].event.lastModifiedDateTime
  IN  { i \in sharing : \A j \in sharing : stamp(j) <= stamp(i) }

EarliestOf(places) == CHOOSE i \in places : \A j \in places : i <= j

LatestOf(places) == CHOOSE i \in places : \A j \in places : j <= i

\* C28 as stated: of the selected records sharing an id, the one returned has
\* the latest last-modified timestamp, and of those with that timestamp it is
\* the one emitted first.
C28_TieKeepsEarlier ==
  Parsed =>
    \A id \in SelectedIds :
      EventsWithId(id) = { SelectedInOrder[EarliestOf(LatestModified(id))].event }

\* C28, amended: of the selected records sharing an id, the one returned has
\* the latest last-modified timestamp, and of those with that timestamp it is
\* the one emitted last.
C28_TieKeepsLater ==
  Parsed =>
    \A id \in SelectedIds :
      EventsWithId(id) = { SelectedInOrder[LatestOf(LatestModified(id))].event }

\* Two different records of one id and one timestamp were selected, and the
\* one emitted second is returned.
C28_Witness ==
  /\ Parsed
  /\ \E id \in SelectedIds : \E i, j \in LatestModified(id) :
       /\ i < j
       /\ SelectedInOrder[i].event # SelectedInOrder[j].event
       /\ SelectedInOrder[j].event \in ReturnedEvents
       /\ SelectedInOrder[i].event \notin ReturnedEvents

\* ---------------------------------------------------------------------- C29
\* The start instant of a returned event, and the order of two ids.
StartInstantOf(e) == IF e.start[1] = "date" THEN e.start[2] * DayMs ELSE e.start[2]

IdBefore(a, b) == LexLess(IdKey(a), IdKey(b))

\* The feeds that hold the blocks of the feed under study in another order.
Reorderings ==
  LET n == Len(args.feed)
      shuffles == { p \in [1..n -> 1..n] : \A i, j \in 1..n : p[i] = p[j] => i = j }
  IN  { [i \in 1..n |-> args.feed[p[i]]] : p \in shuffles }

\* No two blocks of the feed under study build records of one id.
BlocksOfDistinctIds ==
  LET built == intermediateEventsOf(args.feed, args.processZone)
  IN  \A i, j \in 1..Len(built) : built[i].event.id = built[j].event.id => i = j

\* C29: the returned events are in ascending order of start instant, events
\* of one start instant in the order of their ids; and a feed whose blocks
\* build records of distinct ids returns the same sequence in whatever order
\* its blocks are written.
C29_DeterministicOrder ==
  Parsed =>
    /\ \A i, j \in 1..Len(result[1].events) : i < j =>
         LET a == result[1].events[i]
             b == result[1].events[j]
         IN  \/ StartInstantOf(a) < StartInstantOf(b)
             \/ StartInstantOf(a) = StartInstantOf(b) /\ IdBefore(a.id, b.id)
    /\ BlocksOfDistinctIds =>
         \A other \in Reorderings :
           parseIcsToSourceEvents(other, args.windowStartMs, args.windowEndMs,
                                  args.processZone).events = result[1].events

\* Blocks written in descending order of start, two of them starting at the
\* same instant, were returned in ascending order of start and id.
C29_Witness ==
  /\ Parsed
  /\ BlocksOfDistinctIds
  /\ Len(result[1].events) = 3
  /\ StartInstantOf(result[1].events[1]) = StartInstantOf(result[1].events[2])
  /\ result[1].events[1].id # result[1].events[2].id
  /\ \E other \in Reorderings :
       LET built == intermediateEventsOf(other, args.processZone)
       IN  /\ Len(built) = 3
           /\ built[1].event.id = result[1].events[3].id
           /\ built[3].event.id = result[1].events[1].id
           /\ other = args.feed

\* ---------------------------------------------------------------------- C30
\* One more round of the iteration leaves the returned instant as it is.
StableResult == OffsetRounds(args.localAsUtc, args.timeZone, result[1], 1) = result[1]

WallClockAtResult == result[1] + getTimeZoneOffsetMs(args.timeZone, result[1])

\* The instants whose wall clock in the zone is the input: read with the
\* offset before the change and falling before it, or read with the offset
\* after the change and falling after it.
InstantsShowing ==
  IF args.timeZone \notin StepZones THEN {args.localAsUtc - OffsetBefore(args.timeZone)}
  ELSE { t \in {args.localAsUtc - OffsetBefore(args.timeZone)} :
           t < TransitionMs(args.timeZone) }
       \cup { t \in {args.localAsUtc - OffsetAfter(args.timeZone)} :
                t >= TransitionMs(args.timeZone) }

\* C30 as stated: for every zone and every wall-clock value the instant
\* returned after 4 rounds is stable and shows the input wall clock in the zone.
C30_Converges ==
  result # NoResult => StableResult /\ WallClockAtResult = args.localAsUtc

\* C30, amended: for a wall-clock value that occurs in the zone, once or twice,
\* the instant returned is stable and is one of the instants showing it; for
\* a value the zone skips the rounds alternate between the two readings of
\* it, the instant returned is not stable and its wall clock is off by the
\* length of the skipped interval.
C30_ConvergesWhenShown ==
  result # NoResult =>
    IF InstantsShowing # {}
    THEN StableResult /\ result[1] \in InstantsShowing /\ WallClockAtResult = args.localAsUtc
    ELSE /\ ~StableResult
         /\ result[1] \in {args.localAsUtc - OffsetBefore(args.timeZone),
                           args.localAsUtc - OffsetAfter(args.timeZone)}
         /\ WallClockAtResult - args.localAsUtc
              \in {OffsetAfter(args.timeZone) - OffsetBefore(args.timeZone),
                   OffsetBefore(args.timeZone) - OffsetAfter(args.timeZone)}

\* A wall-clock value of the repeated hour, and one whose first reading falls
\* on the wrong side of the change, were each resolved to an instant showing it.
C30_Witness ==
  /\ result # NoResult
  /\ args.timeZone \in StepZones
  /\ result[1] \in InstantsShowing
  /\ args.localAsUtc - getTimeZoneOffsetMs(args.timeZone, args.localAsUtc) \notin InstantsShowing

\* ---------------------------------------------------------------------- C31
\* The texts a value can stand for, and the escaped form of a text: newline
\* as backslash-n, comma as backslash-comma, semicolon as backslash-semicolon,
\* backslash as two backslashes.
Texts == UNION {[1..n -> {"\\", ",", ";", "n", "LF"}] : n \in 0..MaxValueLen}

RECURSIVE EscapedForm(_)
EscapedForm(text) ==
  IF text = <<>> THEN <<>>
  ELSE (IF Head(text) = "LF" THEN <<"\\", "n">>
        ELSE IF Head(text) \in {"\\", ",", ";"} THEN <<"\\", Head(text)>>
        ELSE <<Head(text)>>) \o EscapedForm(Tail(text))

\* C31: unescaping the escaped form of a text returns the text.
C31_UnescapeInvertsEscape ==
  result # NoResult =>
    \A text \in Texts : EscapedForm(text) = args => result[1] = text

\* The same for the texts that hold no backslash.
C31_WithoutBackslash ==
  result # NoResult =>
    \A text \in Texts :
      (EscapedForm(text) = args /\ \A i \in 1..Len(text) : text[i] # "\\") => result[1] = text

\* ---------------------------------------------------------------------- C32
\* C32: no two events of the returned batch have the same id, so the cycle
\* finds each returned event that is not cancelled once among its active
\* occurrences.
C32_DistinctIds ==
  Parsed =>
    /\ \A i, j \in 1..Len(result[1].events) :
         result[1].events[i].id = result[1].events[j].id => i = j
    /\ Len(activeEventsById(result[1].events))
         = Cardinality({ i \in 1..Len(result[1].events) : ~result[1].events[i].isCancelled })

\* Records sharing an id were selected, one of them was returned, next to an
\* event of another id.
C32_Witness ==
  /\ Parsed
  /\ \E i, j \in 1..Len(SelectedInOrder) :
       /\ i # j
       /\ SelectedInOrder[i].event.id = SelectedInOrder[j].event.id
       /\ SelectedInOrder[i].startMs # SelectedInOrder[j].startMs
       /\ Cardinality(EventsWithId(SelectedInOrder[i].event.id)) = 1
  /\ Len(result[1].events) = 2

\* A step in which the listEvents call of a running cycle fails for good: the
\* cycle ends without having fetched.
FetchFails ==
  \E b \in BatchSlots :
     /\ batch[b].pc = "listEvents"
     /\ batch'[b] # batch[b]
     /\ returned'.sub = CurrentSub(b)
     /\ ~returned'.fetched

\* C33: when listing the source's occurrences fails, the cycle issues no create,
\* update or delete, changes no mapping record and no destination event, and
\* writes nothing but the failed last_run_status (with its time) of its own
\* subscription before it rethrows and is counted among the failures.
C33_FetchFailureOnlySetsStatus ==
  [][FetchFails =>
       /\ ~returned'.ok
       /\ returned'.error \in ErrorStatuses
       /\ returned'.calls = <<>>
       /\ returned'.metrics = ZeroMetrics
       /\ mappings' = mappings
       /\ dest' = dest
       /\ nextGoogleId' = nextGoogleId
       /\ syncState' = [syncState EXCEPT ![returned'.sub] =
                          [@ EXCEPT !.last_run_status = "failed", !.failedAt = returned'.at]]
       /\ syncState'[returned'.sub].last_run_status = "failed"
       /\ syncState'[returned'.sub].last_successful_sync_ts
            = syncState[returned'.sub].last_successful_sync_ts]_vars

C33_Witness ==
  /\ returned.sub # ""
  /\ ~returned.fetched
  /\ ~returned.ok
  /\ MappedIds(returned.sub) # {}
  /\ \E d \in dest : d.subscription_id = returned.sub
  /\ syncState[returned.sub].last_run_status = "failed"
  /\ syncState[returned.sub].last_successful_sync_ts > 0

\* The calls of cycle c that mirrored an active occurrence: a create or an update
\* answered 200.
Mirrored(c) == Calls(c, {"create", "update"}, {200})

\* C34: within one cycle every delete of a stale mapping, whatever its answer,
\* comes after a successful create or update of each active occurrence; a cycle
\* that failed on a create or an update has issued no delete, and every mapping
\* it started from is still in place.
C34_CreatesAndUpdatesPrecedeDeletes ==
  \A c \in Cycles :
     /\ \A k \in 1..Len(c.calls) :
          c.calls[k].op = "delete" =>
             \A e \in Range(c.active) :
                \E n \in Mirrored(c) : n < k /\ c.calls[n].id = e
     /\ (c.state = "threw" /\ c.calls[Len(c.calls)].op \in {"create", "update"}) =>
          /\ \A k \in 1..Len(c.calls) : c.calls[k].op # "delete"
          /\ c.metrics.deleted = 0
          /\ \A e \in Range(SnapKeys(c.mappingSnap)) : mappings[c.sub][e] # NoRow

\* A delete issued in a cycle that has active occurrences, after a mirroring call.
C34_Witness ==
  \E c \in Cycles :
     \E k \in 1..Len(c.calls) :
        /\ c.calls[k].op = "delete"
        /\ Cardinality(Range(c.active)) >= 1
        /\ Cardinality(Mirrored(c)) >= 1

\* A cycle with a stale mapping that failed while processing an active occurrence.
C34_WitnessFailure ==
  \E c \in Cycles :
     /\ c.state = "threw"
     /\ c.calls[Len(c.calls)].op \in {"create", "update"}
     /\ Range(SnapKeys(c.mappingSnap)) \ Range(c.active) # {}

\* The cycle of subscription s awaits a create (first or after a 404 on update)
\* for occurrence e in batch b.
AwaitsCreate(b, s, e) ==
  /\ batch[b].pc \in {"createEvent", "recreateEvent"}
  /\ CurrentSub(b) = s
  /\ batch[b].active[batch[b].i] = e

\* A step in which the create or update call a cycle waits for fails for good.
MirrorCallFails ==
  \E b \in BatchSlots :
     /\ batch[b].pc \in {"createEvent", "recreateEvent", "updateEvent"}
     /\ returned'.sub = CurrentSub(b)
     /\ ~returned'.ok
     /\ returned'.fetched
     /\ batch'[b] # batch[b]

\* C35: a mapping record gets a destination id only in the step of a successful
\* create for its own subscription and occurrence, the id being the one that
\* create returned (a successful update keeps the stored id); a create or update
\* that fails writes no mapping; no two mappings of a subscription hold the same
\* destination id, and a mapped destination event still in the calendar carries
\* the mapping's subscription and occurrence.
C35_MappingsFollowMirrors ==
  /\ [](\A s \in SubscriptionIds : \A e \in EventIds :
          mappings[s][e] # NoRow =>
             /\ mappings[s][e] < nextGoogleId
             /\ \A x \in EventIds \ {e} : mappings[s][x] # mappings[s][e]
             /\ \A ev \in dest :
                  ev.id = mappings[s][e] =>
                     ev.subscription_id = s /\ ev.source_event_id = e)
  /\ [][/\ \A s \in SubscriptionIds : \A e \in EventIds :
             (mappings'[s][e] # mappings[s][e] /\ mappings'[s][e] # NoRow) =>
                \E b \in BatchSlots :
                   /\ AwaitsCreate(b, s, e)
                   /\ mappings'[s][e] = nextGoogleId
                   /\ nextGoogleId' = nextGoogleId + 1
                   /\ \E ev \in dest' \ dest :
                        /\ ev.id = mappings'[s][e]
                        /\ ev.subscription_id = s
                        /\ ev.source_event_id = e
        /\ MirrorCallFails => mappings' = mappings
        /\ (\E b \in BatchSlots : batch[b].pc = "updateEvent" /\ batch'[b] # batch[b])
              => mappings' = mappings
       ]_vars

\* Every occurrence of a subscription is mapped, one of them to a later
\* destination id that is still in the calendar, and its last cycle failed.
C35_Witness ==
  \E s \in SubscriptionIds :
     /\ \A e \in EventIds : mappings[s][e] # NoRow
     /\ \E e \in EventIds : mappings[s][e] > 1 /\ mappings[s][e] \in DestIds
     /\ syncState[s].last_run_status = "failed"

\* The mapping records of subscription s that hold destination id g.
ReferencedBy(s, g) == {e \in EventIds : mappings[s][e] = g}

\* The events in the destination that mirror occurrence e of subscription s.
LiveMirrors(s, e) == {ev \in dest : ev.subscription_id = s /\ ev.source_event_id = e}

\* C36: every event in the destination that the engine created for a
\* subscription is referenced by exactly one mapping of that subscription, the
\* one of its occurrence; hence the destination holds at most one event per
\* (subscription id, occurrence id).
C36_NoOrphanedOrDuplicatedMirrors ==
  /\ \A ev \in dest : ReferencedBy(ev.subscription_id, ev.id) = {ev.source_event_id}
  /\ \A s \in SubscriptionIds : \A e \in EventIds : Cardinality(LiveMirrors(s, e)) <= 1

\* A subscription whose last cycle failed has a live mirror under a later
\* destination id, and two subscriptions mirror into the same calendar.
C36_Witness ==
  /\ \E s \in SubscriptionIds :
       /\ syncState[s].last_run_status = "failed"
       /\ \E e \in EventIds : LiveMirrors(s, e) # {} /\ mappings[s][e] > 1
  /\ \E ev1, ev2 \in dest :
       /\ ev1.subscription_id # ev2.subscription_id
       /\ ev1.calendarId = ev2.calendarId

\* A step in which the executing batch ends.
BatchEnds == Executing # {} /\ Executing' = {}

\* C37: cycleRunning is false whenever no batch executes, being lowered in the
\* step that ends a batch whether its cycles succeeded or failed; an interval
\* trigger that fires while no batch executes starts one and logs no skip; and
\* once a shutdown signal has been taken the process eventually exits.
C37_BusyFlagReleased ==
  /\ [](Executing = {} => ~cycleRunning)
  /\ [][/\ BatchEnds => (~cycleRunning' /\ summary'.subscriptionCount > 0)
        /\ (TimerFires /\ Executing = {}) =>
              /\ nBatches' = nBatches + 1
              /\ Executing' = {nBatches'}
              /\ cycleRunning'
              /\ skipLogged' = skipLogged
       ]_vars
  /\ (shuttingDown ~> phase = "exited")

\* A shutdown signal taken while a batch with a failed cycle is executing.
C37_Witness ==
  /\ shuttingDown
  /\ phase = "draining"
  /\ \E b \in Executing : batch[b].failures # <<>>

\* A batch started by the timer after an earlier batch ended with failures.
C37_WitnessNextTrigger ==
  /\ nBatches = 2
  /\ Executing = {2}
  /\ \E s \in SubscriptionIds : syncState[s].last_run_status = "failed"

\* The mapped occurrence ids a cycle found stale: in its snapshot of the
\* mappings, and not among the non-cancelled occurrences it fetched.
StaleAtStart(c) == Range(SnapKeys(c.mappingSnap)) \ NonCancelledIds(c.sourceEvents)

\* C38: in the result of a cycle that completes, created + updated is the number
\* of distinct non-cancelled occurrence ids the source returned, deleted is the
\* number of mappings that were stale when the cycle read them, and considered
\* is the number of occurrences returned, cancelled ones included.
C38_MetricsAccountForEveryDecision ==
  (returned.sub # "" /\ returned.ok) =>
     /\ returned.metrics.created + returned.metrics.updated
          = Cardinality(NonCancelledIds(returned.sourceEvents))
     /\ returned.metrics.deleted = Cardinality(StaleAtStart(returned))
     /\ returned.metrics.considered = Len(returned.sourceEvents)

\* A completed cycle that fetched a cancelled and a non-cancelled occurrence,
\* recreated one after a 404 on update, and deleted a stale mapping.
C38_Witness ==
  /\ returned.sub # ""
  /\ returned.ok
  /\ CancelledIds(returned.sourceEvents) # {}
  /\ NonCancelledIds(returned.sourceEvents) # {}
  /\ returned.metrics.deleted > 0
  /\ Calls(returned, {"update"}, {404}) # {}

\* A completed cycle with a create and an update.
C38_WitnessBoth ==
  /\ returned.sub # ""
  /\ returned.ok
  /\ returned.metrics.created > 0
  /\ returned.metrics.updated > 0

\* The configured subscriptions whose target calendar the cleanup swept.
Cleaned == Range(affectedSubscriptions(args))

NoStateRows == [last_run_status |-> "none", failedAt |-> 0, last_successful_sync_ts |-> 0]

\* The cleanup has completed and the daemon has not been started yet.
JustCleaned == CleanupCompleted /\ phase = "boot"

\* A step in which a cycle of a cleaned subscription completes.
CleanedCycleCompletes ==
  /\ returned'.sub \in Cleaned
  /\ returned'.ok
  /\ \E b \in BatchSlots : batch[b].pc # "idle" /\ batch'[b] # batch[b]

\* The cycle that has just completed created one destination event per active
\* occurrence and did nothing else.
OnlyCreated(c) ==
  /\ c.metrics.created = Cardinality(NonCancelledIds(c.sourceEvents))
  /\ c.metrics.updated = 0
  /\ c.metrics.deleted = 0
  /\ Len(c.calls) = c.metrics.created
  /\ \A k \in 1..Len(c.calls) : c.calls[k].op = "create" /\ c.calls[k].status = 200

====
